---- MODULE Spec2Model ----
(***************************************************************************)
(* Smart Financial Coach: the subscription detector of the React client    *)
(* (FinancialOverview.tsx, SubscriptionDetector), the REST endpoints it    *)
(* talks to (routes/subscriptionRoutes.js, routes/transactionRoutes.js)    *)
(* and the anomaly detector of routes/analyticsRoutes.js.                  *)
(*                                                                         *)
(* Representation choices                                                  *)
(*  - a date is a day number; 'YYYY-MM-DD' strings parse to UTC midnight,  *)
(*    so (t2 - t1) / 86400000 is the difference of the day numbers;        *)
(*  - a quotient the code computes in floating point is kept exact, as a   *)
(*    pair num/den, and comparisons are cross-multiplied;                  *)
(*  - a confidence is kept in hundredths (0.9 is 90);                      *)
(*  - created_at, the tie-break of the transaction list, is the row id.    *)
(***************************************************************************)
EXTENDS Integers, Sequences, FiniteSets, TLC

(***************************************************************************)
(* Bounds of the model                                                     *)
(***************************************************************************)
MaxTx == 3

Vendors == {"v1", "v2"}

Categories == {"Streaming"}

\* the transactions a user enters while the detector is studied on its own
DetectTxKinds == [date : {0, 30, 60, 100}, vendor : Vendors, amount : {-10, 5},
                  category : Categories]

\* the transactions a user enters while the handlers are studied
UiTxKinds == [date : {0, 30, 100}, vendor : Vendors, amount : {-10},
              category : Categories]

MaxSubs == 1

\* stored histories the anomaly detector is studied on: up to MaxTens
\* transactions of amount -10 in one category, then up to MaxExtra others
MaxTens == 10

MaxExtra == 2

ExtraKinds == {[category |-> "Streaming", amount |-> -1000],
               [category |-> "Streaming", amount |-> 40],
               [category |-> "Streaming", amount |-> -31],
               [category |-> "Streaming", amount |-> -64],
               [category |-> "Dining", amount |-> -25]}

Tabs == {"overview", "transactions", "subscriptions"}

\* GET /transactions: const limit = parseInt(req.query.limit) || 50
DefaultLimit == 50

\* services/api.ts: the user id the client sends with every request
DEFAULT_USER_ID == 1

(***************************************************************************)
(* Sequence helpers                                                        *)
(***************************************************************************)
RECURSIVE SumSeq(_)
SumSeq(s) == IF s = <<>> THEN 0 ELSE Head(s) + SumSeq(Tail(s))

Abs(x) == IF x < 0 THEN -x ELSE x

Range(s) == {s[i] : i \in DOMAIN s}

Take(s, n) == IF Len(s) <= n THEN s ELSE SubSeq(s, 1, n)

\* Array.prototype.sort with a comparator: a stable sort. Before(a, b) is
\* "comparator(a, b) < 0".
StableSort(s, Before(_, _)) ==
  LET n == Len(s)
      rank(i) == Cardinality({j \in 1..n :
                    \/ Before(s[j], s[i])
                    \/ (~Before(s[i], s[j]) /\ j < i)}) + 1
  IN  [k \in 1..n |-> s[CHOOSE i \in 1..n : rank(i) = k]]

\* Math.round(num / den) for num >= 0, den > 0
RoundDiv(num, den) == (2 * num + den) \div (2 * den)

Max(S) == CHOOSE x \in S : \A y \in S : y <= x

Min(S) == CHOOSE x \in S : \A y \in S : x <= y

RECURSIVE SortedSeq(_)
SortedSeq(S) == IF S = {} THEN <<>> ELSE <<Min(S)>> \o SortedSeq(S \ {Min(S)})

(***************************************************************************)
(* State                                                                   *)
(***************************************************************************)
VARIABLES
  dbTransactions,             \* rows of table transactions, in insertion order
  dbSubscriptions,            \* rows of table subscriptions, in insertion order
  dbBudgets,                  \* rows of table budgets
  nextTxId,                   \* AUTOINCREMENT of table transactions
  nextSubId,                  \* AUTOINCREMENT of table subscriptions
  activeTab,                  \* Dashboard: activeTab
  error,                      \* useFinancialData: state.error (as a flag)
  transactions,               \* useFinancialData: state.transactions
  subscriptions,              \* useFinancialData: state.subscriptions
  rejectedVendors,            \* SubscriptionDetector: rejectedVendors
  permanentlyRemovedVendors,  \* SubscriptionDetector: permanentlyRemovedVendors
  processingSubscriptions,    \* SubscriptionDetector: processingSubscriptions
  lastOp,                     \* the handler that ran last, and its outcome
  everRemoved,                \* vendors handlePermanentlyRemoveFromAI was invoked for
  insightsRun,                \* the analysis of the stored transactions has run
  anomalies,                  \* what detectSpendingAnomalies returned
  forecasts,                  \* what forecastSpending returned, per category
  request                     \* GET /analytics/insights/:userId being served

vars == <<dbTransactions, dbSubscriptions, dbBudgets, nextTxId, nextSubId,
          activeTab, error,
          transactions, subscriptions, rejectedVendors,
          permanentlyRemovedVendors, processingSubscriptions, lastOp,
          everRemoved, insightsRun, anomalies, forecasts, request>>

analyticsVars == <<insightsRun, anomalies, forecasts, request>>

clientVars == <<activeTab, error, transactions, subscriptions, rejectedVendors,
                permanentlyRemovedVendors, processingSubscriptions, lastOp,
                everRemoved>>

\* TransactionManager.handleSubmit: an expense is sent with a negative amount,
\* an income with a positive one
TypeOf(amount) == IF amount < 0 THEN "expense" ELSE "income"

\* no insights request has been received
NoRequest == [n |-> 0, pc |-> "idle", userId |-> 0, timeView |-> "", month |-> 0,
              today |-> 0,
              categories |-> <<>>, trends |-> <<>>, subscriptions |-> <<>>,
              fault |-> "none", status |-> 0, insights |-> <<>>, sent |-> 0]

(***************************************************************************)
(* GET /transactions: WHERE t.user_id = ? ORDER BY t.date DESC,            *)
(* t.created_at DESC LIMIT ?                                               *)
(***************************************************************************)
ListBefore(a, b) == \/ a.date > b.date
                    \/ (a.date = b.date /\ a.id > b.id)

ListTransactions(db) ==
  Take(StableSort(SelectSeq(db, LAMBDA t : t.user_id = DEFAULT_USER_ID), ListBefore),
       DefaultLimit)

(***************************************************************************)
(* detectPotentialSubscriptions (useMemo)                                  *)
(***************************************************************************)
\* GroupedTransactions without the test of permanentlyRemovedVendors
GroupedTransactions_IgnoreRemoved(txs, rejected, removed) ==
  SelectSeq(txs, LAMBDA t : t.amount < 0 /\ ~(t.vendor \in rejected))

\* the forEach of lines 919-947: the expense transactions of vendors that are
\* neither rejected nor permanently removed, in the order of the list
GroupedTransactions(txs, rejected, removed) ==
  SelectSeq(txs, LAMBDA t : /\ t.amount < 0
                            /\ ~(t.vendor \in rejected \/ t.vendor \in removed))

\* keys of vendorMap in insertion order
RECURSIVE VendorOrder(_, _)
VendorOrder(g, seen) ==
  IF g = <<>> THEN <<>>
  ELSE IF Head(g).vendor \in seen THEN VendorOrder(Tail(g), seen)
       ELSE <<Head(g).vendor>> \o VendorOrder(Tail(g), seen \cup {Head(g).vendor})

\* vendorMap.get(vendor) after the grouping loop
VendorData(g, vendor) ==
  LET ts == SelectSeq(g, LAMBDA t : t.vendor = vendor)
  IN  [vendor          |-> vendor,
       transactions    |-> ts,
       totalSpent      |-> SumSeq([i \in DOMAIN ts |-> Abs(ts[i].amount)]),
       firstCategory   |-> ts[1].category,
       \* vendorData.lastTransaction = new Date(transaction.date), overwritten
       \* by every transaction of the vendor: the date of the one iterated last
       lastTransaction |-> ts[Len(ts)].date]

DateBefore(a, b) == a.date < b.date

\* DaysBetween with the filter days >= 0 in place of days > 0
DaysBetween_KeepZero(ts) ==
  LET sorted == StableSort(ts, DateBefore)
      gaps   == [i \in DOMAIN sorted |->
                   IF i = 1 THEN 0 ELSE sorted[i].date - sorted[i - 1].date]
  IN  SelectSeq(gaps, LAMBDA d : d >= 0)

\* daysBetween: gaps of the date-sorted transactions, the positive ones only
DaysBetween(ts) ==
  LET sorted == StableSort(ts, DateBefore)
      gaps   == [i \in DOMAIN sorted |->
                   IF i = 1 THEN 0 ELSE sorted[i].date - sorted[i - 1].date]
  IN  SelectSeq(gaps, LAMBDA d : d > 0)

\* IsRegular with the sum of the gaps in place of their average
IsRegular_SumForAvg(gaps) ==
  LET sum == SumSeq(gaps)
  IN  \A i \in DOMAIN gaps : Abs(gaps[i] - sum) < 7

\* isRegular: every |days - avg| < 7, with avg = sum / n
IsRegular(gaps) ==
  LET n == Len(gaps)
      sum == SumSeq(gaps)
  IN  \A i \in DOMAIN gaps : Abs(gaps[i] * n - sum) < 7 * n

\* the if / else-if chain of lines 965-980; avgDaysBetween = sum / n
Classify(gaps, count) ==
  LET n == Len(gaps)
      sum == SumSeq(gaps)
      reg == IsRegular(gaps)
  IN  IF reg /\ sum <= 35 * n THEN [type |-> "monthly", confidence |-> 90]
      ELSE IF reg /\ sum <= 45 * n THEN [type |-> "monthly", confidence |-> 70]
      ELSE IF reg /\ sum <= 400 * n THEN [type |-> "yearly", confidence |-> 80]
      ELSE IF count >= 3 THEN [type |-> "irregular", confidence |-> 50]
      ELSE [type |-> "unknown", confidence |-> 0]

\* the object pushed to potentialSubs (lines 986-1004)
Candidate(vd) ==
  LET gaps == DaysBetween(vd.transactions)
      n    == Len(gaps)
      sum  == SumSeq(gaps)
      cls  == Classify(gaps, Len(vd.transactions))
      cnt  == Len(vd.transactions)
  IN  [id               |-> <<"detected", vd.vendor>>,
       vendor           |-> vd.vendor,
       name             |-> vd.vendor,
       amount           |-> [num |-> vd.totalSpent, den |-> cnt],
       monthlyCost      |-> IF cls.type = "yearly"
                              THEN [num |-> vd.totalSpent, den |-> cnt * 12]
                              ELSE [num |-> vd.totalSpent, den |-> cnt],
       frequency        |-> cls.type,
       confidence       |-> cls.confidence,
       category         |-> vd.firstCategory,
       lastBilling      |-> vd.lastTransaction,
       \* lastTransaction.getTime() + avgDaysBetween * 24 * 60 * 60 * 1000
       nextBilling      |-> [num |-> vd.lastTransaction * n + sum, den |-> n],
       transactionCount |-> cnt,
       totalSpent       |-> vd.totalSpent,
       pattern          |-> [avgDaysBetween |-> RoundDiv(sum, n),
                             regularity     |-> IF IsRegular(gaps) THEN "high" ELSE "medium",
                             variance       |-> Max(Range(gaps)) - Min(Range(gaps))]]

\* the guards of lines 951, 960 and 982
Emits(vd) ==
  /\ Len(vd.transactions) >= 2
  /\ Len(DaysBetween(vd.transactions)) > 0
  /\ Classify(DaysBetween(vd.transactions), Len(vd.transactions)).confidence > 40

\* the comparator with its operands exchanged: a.confidence - b.confidence
ConfidenceBefore_Ascending(a, b) == a.confidence < b.confidence

\* .sort((a, b) => b.confidence - a.confidence), line 1010
ConfidenceBefore(a, b) == a.confidence > b.confidence

detectPotentialSubscriptions(txs, rejected, removed) ==
  IF Len(txs) = 0 THEN <<>>
  ELSE
    LET g      == GroupedTransactions(txs, rejected, removed)
        order  == VendorOrder(g, {})
        datas  == [i \in DOMAIN order |-> VendorData(g, order[i])]
        kept   == SelectSeq(datas, Emits)
        pushed == [i \in DOMAIN kept |-> Candidate(kept[i])]
    IN  StableSort(pushed, ConfidenceBefore)

\* the candidate list the component renders in the current state
Candidates == detectPotentialSubscriptions(transactions, rejectedVendors,
                                           permanentlyRemovedVendors)

CandidateVendors == {Candidates[i].vendor : i \in DOMAIN Candidates}

(***************************************************************************)
(* handleConfirmSubscription: the request it builds                        *)
(***************************************************************************)
\* NormalizeFrequency without the normalisation
NormalizeFrequency_PassThrough(frequency) == frequency

\* lines 868-872
NormalizeFrequency(frequency) == IF frequency = "yearly" THEN "yearly" ELSE "monthly"

\* nextBillingDate.toISOString().split('T')[0]: the UTC calendar day
ToISODate(instant) == instant.num \div instant.den

\* lines 879-886
NewSubscription(detectedSub) ==
  [name         |-> IF detectedSub.name = "" THEN "Unknown Service" ELSE detectedSub.name,
   amount       |-> detectedSub.amount,
   frequency    |-> NormalizeFrequency(detectedSub.frequency),
   next_billing |-> ToISODate(detectedSub.nextBilling),
   category     |-> IF detectedSub.category = "" THEN "Other" ELSE detectedSub.category,
   status       |-> "active"]

\* subscriptionAPI.create: body: JSON.stringify({ ...subscription, user_id: DEFAULT_USER_ID })
CreateRequestBody(subscription) == subscription @@ [user_id |-> 1]

(***************************************************************************)
(* routes/subscriptionRoutes.js                                            *)
(***************************************************************************)
FrequencyValid(body) ==
  "frequency" \in DOMAIN body /\ body.frequency \in {"monthly", "yearly"}

\* the express-validator chain of router.post('/')
PostSubscriptionValid(body) ==
  /\ "name" \in DOMAIN body /\ body.name # ""
  /\ "amount" \in DOMAIN body /\ body.amount.num >= 0
  /\ FrequencyValid(body)
  /\ "nextBilling" \in DOMAIN body /\ body.nextBilling \in Int
  /\ "category" \in DOMAIN body /\ body.category # ""
  /\ "status" \in DOMAIN body => body.status \in {"active", "trial", "forgotten"}

\* the row router.post('/') inserts and answers with
SubscriptionRow(id, body) ==
  [id          |-> id,
   \* const userId = req.body.userId || 1
   user_id     |-> IF "userId" \in DOMAIN body THEN body.userId ELSE 1,
   name        |-> body.name,
   amount      |-> body.amount,
   frequency   |-> body.frequency,
   nextBilling |-> body.nextBilling,
   category    |-> body.category,
   status      |-> IF "status" \in DOMAIN body THEN body.status ELSE "active"]

NextBillingBefore(a, b) == a.nextBilling < b.nextBilling

\* router.get('/'): WHERE user_id = ? ORDER BY next_billing ASC
ListSubscriptions(db) ==
  StableSort(SelectSeq(db, LAMBDA r : r.user_id = DEFAULT_USER_ID), NextBillingBefore)

\* a request of another API client
ApiBodies ==
  {[name |-> v, amount |-> [num |-> 10, den |-> 1], frequency |-> "monthly",
    nextBilling |-> 130, category |-> "Streaming", status |-> "active"] : v \in Vendors}

(***************************************************************************)
(* Operations                                                              *)
(***************************************************************************)
NoBody == [user_id |-> 1]

NoOp == [op |-> "none", vendor |-> "", id |-> <<>>, cycle |-> "", up |-> TRUE,
         ok |-> TRUE, alerted |-> FALSE, body |-> NoBody]

Init ==
  /\ dbTransactions = <<>>
  /\ dbSubscriptions = <<>>
  /\ dbBudgets = <<>>
  /\ nextTxId = Len(dbTransactions) + 1
  /\ nextSubId = 1
  /\ activeTab = "overview"
  /\ error = FALSE
  /\ transactions = <<>>
  /\ subscriptions = <<>>
  /\ rejectedVendors = {}
  /\ permanentlyRemovedVendors = {}
  /\ processingSubscriptions = {}
  /\ lastOp = NoOp
  /\ everRemoved = {}
  /\ insightsRun = FALSE
  /\ anomalies = <<>>
  /\ forecasts = <<>>
  /\ request = NoRequest

\* Dashboard: setActiveTab(tab). renderContent mounts the component of the new
\* tab and unmounts the old one; a mounted SubscriptionDetector starts from its
\* useState initial values and useFinancialData runs loadAllData, which either
\* stores the answers of the five requests or sets state.error.
SwitchTab(tab) ==
  /\ tab # activeTab
  /\ activeTab' = tab
  /\ rejectedVendors' = {}
  /\ permanentlyRemovedVendors' = {}
  /\ processingSubscriptions' = {}
  /\ IF tab = "subscriptions"
       THEN \E loaded \in BOOLEAN :
              /\ error' = ~loaded
              /\ transactions' = IF loaded THEN ListTransactions(dbTransactions) ELSE <<>>
              /\ subscriptions' = IF loaded THEN ListSubscriptions(dbSubscriptions) ELSE <<>>
       ELSE /\ error' = FALSE
            /\ transactions' = <<>>
            /\ subscriptions' = <<>>
  /\ lastOp' = NoOp
  /\ UNCHANGED <<dbBudgets, nextTxId>>
  /\ UNCHANGED <<dbTransactions, dbSubscriptions, nextSubId, everRemoved>>
  /\ UNCHANGED analyticsVars

\* TransactionManager -> addTransaction -> POST /transactions
PostTransaction(t) ==
  /\ activeTab = "transactions"
  /\ Len(dbTransactions) < MaxTx
  /\ dbTransactions' = Append(dbTransactions,
        [id |-> nextTxId, user_id |-> DEFAULT_USER_ID,
         date |-> t.date, vendor |-> t.vendor, amount |-> t.amount,
         category |-> t.category, type |-> TypeOf(t.amount)])
  /\ nextTxId' = nextTxId + 1
  /\ lastOp' = NoOp
  /\ UNCHANGED dbBudgets
  /\ UNCHANGED <<dbSubscriptions, nextSubId, activeTab, error, transactions,
                 subscriptions, rejectedVendors, permanentlyRemovedVendors,
                 processingSubscriptions, everRemoved>>
  /\ UNCHANGED analyticsVars

\* POST /subscriptions sent by another client of the API
PostSubscription(body) ==
  /\ nextSubId <= MaxSubs
  /\ PostSubscriptionValid(body)
  /\ dbSubscriptions' = Append(dbSubscriptions, SubscriptionRow(nextSubId, body))
  /\ nextSubId' = nextSubId + 1
  /\ lastOp' = NoOp
  /\ UNCHANGED <<dbBudgets, nextTxId>>
  /\ UNCHANGED <<dbTransactions, activeTab, error, transactions, subscriptions,
                 rejectedVendors, permanentlyRemovedVendors,
                 processingSubscriptions, everRemoved>>
  /\ UNCHANGED analyticsVars

\* the buttons of a candidate row are rendered once loading is over, without
\* error, and are disabled while the candidate is being processed
CanClick(detectedSub) ==
  /\ activeTab = "subscriptions"
  /\ ~error
  /\ detectedSub \in Range(Candidates)
  /\ detectedSub.id \notin processingSubscriptions

\* lines 837 and 846-850, lines 866 and 901-907: the id is added, and removed in
\* the finally block
ProcessingAfter(processing, id) == (processing \cup {id}) \ {id}

\* handlePermanentlyRemoveFromAI
HandlePermanentlyRemoveFromAI(detectedSub) ==
  /\ CanClick(detectedSub)
  /\ permanentlyRemovedVendors' = permanentlyRemovedVendors \cup {detectedSub.vendor}
  /\ processingSubscriptions' =
        ProcessingAfter(processingSubscriptions, detectedSub.id)
  /\ everRemoved' = everRemoved \cup {detectedSub.vendor}
  /\ lastOp' = [NoOp EXCEPT !.op = "remove", !.vendor = detectedSub.vendor,
                            !.id = detectedSub.id]
  /\ UNCHANGED <<dbBudgets, nextTxId>>
  /\ UNCHANGED <<dbTransactions, dbSubscriptions, nextSubId, activeTab, error,
                 transactions, subscriptions, rejectedVendors>>
  /\ UNCHANGED analyticsVars

\* setRejectedVendors of line 895 with the await of line 890 moved after it
RejectedAfterConfirm_BeforeAwait(rejected, vendor, created) == rejected \cup {vendor}

\* lines 890-895: setRejectedVendors runs only if addSubscription did not throw
RejectedAfterConfirm(rejected, vendor, created) ==
  IF created THEN rejected \cup {vendor} ELSE rejected

\* handleConfirmSubscription, with addSubscription and router.post('/').
\* up: the request reaches the server and the INSERT does not fail.
HandleConfirmSubscription(detectedSub) ==
  \E up \in BOOLEAN :
    LET body    == CreateRequestBody(NewSubscription(detectedSub))
        created == up /\ PostSubscriptionValid(body)
        row     == SubscriptionRow(nextSubId, body)
    IN  /\ CanClick(detectedSub)
        /\ IF created
             THEN /\ dbSubscriptions' = Append(dbSubscriptions, row)
                  /\ nextSubId' = nextSubId + 1
                  /\ subscriptions' = Append(subscriptions, row)
             ELSE UNCHANGED <<dbSubscriptions, nextSubId, subscriptions>>
        /\ rejectedVendors' =
              RejectedAfterConfirm(rejectedVendors, detectedSub.vendor, created)
        /\ processingSubscriptions' =
              ProcessingAfter(processingSubscriptions, detectedSub.id)
        /\ lastOp' = [op |-> "confirm", vendor |-> detectedSub.vendor,
                      id |-> detectedSub.id, cycle |-> detectedSub.frequency,
                      up |-> up, ok |-> created, alerted |-> ~created,
                      body |-> body]
        /\ UNCHANGED <<dbBudgets, nextTxId>>
        /\ UNCHANGED <<dbTransactions, activeTab, error, transactions,
                       permanentlyRemovedVendors, everRemoved>>
        /\ UNCHANGED analyticsVars

\* handleCancel, with deleteSubscription and router.delete('/:id')
HandleCancel(id) ==
  \E up \in BOOLEAN :
    LET found   == {i \in DOMAIN subscriptions : subscriptions[i].id = id}
        stored  == \E i \in DOMAIN dbSubscriptions : dbSubscriptions[i].id = id
        deleted == up /\ stored
    IN  /\ activeTab = "subscriptions"
        /\ ~error
        /\ found # {}
        /\ IF deleted
             THEN /\ dbSubscriptions' = SelectSeq(dbSubscriptions, LAMBDA r : r.id # id)
                  /\ subscriptions' = SelectSeq(subscriptions, LAMBDA r : r.id # id)
                  /\ rejectedVendors' =
                        rejectedVendors \ {subscriptions[i].name : i \in found}
             ELSE UNCHANGED <<dbSubscriptions, subscriptions, rejectedVendors>>
        /\ lastOp' = [NoOp EXCEPT !.op = "cancel", !.up = up, !.ok = deleted,
                        !.vendor = subscriptions[CHOOSE i \in found : TRUE].name]
        /\ UNCHANGED <<dbBudgets, nextTxId>>
        /\ UNCHANGED <<dbTransactions, nextSubId, activeTab, error, transactions,
                       permanentlyRemovedVendors, processingSubscriptions,
                       everRemoved>>
        /\ UNCHANGED analyticsVars

Next ==
  \/ \E tab \in Tabs : SwitchTab(tab)
  \/ \E t \in UiTxKinds : PostTransaction(t)
  \/ \E body \in ApiBodies : PostSubscription(body)
  \/ \E c \in Range(Candidates) : HandlePermanentlyRemoveFromAI(c)
  \/ \E c \in Range(Candidates) : HandleConfirmSubscription(c)
  \/ \E i \in DOMAIN subscriptions : HandleCancel(subscriptions[i].id)

Spec == Init /\ [][Next]_vars

NextDetect ==
  \/ \E tab \in Tabs : SwitchTab(tab)
  \/ \E t \in DetectTxKinds : PostTransaction(t)
  \/ \E c \in Range(Candidates) : HandlePermanentlyRemoveFromAI(c)

SpecDetect == Init /\ [][NextDetect]_vars

\* the transactions a user enters while the classification is studied:
\* payments more than 400 days apart
ClassifyTxKinds == [date : {0, 410, 820, 850}, vendor : Vendors, amount : {-10},
                    category : Categories]

NextClassify ==
  \/ \E tab \in Tabs : SwitchTab(tab)
  \/ \E t \in ClassifyTxKinds : PostTransaction(t)

SpecClassify == Init /\ [][NextClassify]_vars

(***************************************************************************)
(* POST /subscriptions/mark-not-subscription and the hook that calls it    *)
(***************************************************************************)
\* rows of table budgets (id, user_id, spent) the studies of the budgets start
\* from
StoredBudgets ==
  <<[id |-> 1, user_id |-> 1, spent |-> 0],
    [id |-> 2, user_id |-> 1, spent |-> 20],
    [id |-> 3, user_id |-> 2, spent |-> 0]>>

\* vendors a caller may pass: the known ones, none, and a blank one
MarkedVendors == Vendors \cup {"", " "}

\* trim() of the validator, on the vendors above
TrimVendor(vendor) == IF vendor = " " THEN "" ELSE vendor

\* body('vendor').trim().isLength({ min: 1 }); userId is optional and not sent
MarkNotSubscriptionValid(body) == TrimVendor(body.vendor) # ""

\* a refresh that began by dropping the loaded transactions
refreshData_Cleared(prev) == [prev EXCEPT !.transactions = <<>>]

\* useFinancialData.refreshData: setState(prev => ({ ...prev }))
refreshData(prev) == prev

\* useFinancialData.markNotSubscription with router.post('/mark-not-subscription'):
\* the handler validates and answers, it runs no statement on the database;
\* the hook refreshes after a success and rethrows after a failure.
\* up: the request reaches the server; listed: the candidates shown before the
\* call.
MarkNotSubscription(vendor) ==
  \E up \in BOOLEAN :
    LET body  == [vendor |-> vendor]
        ok    == up /\ MarkNotSubscriptionValid(body)
        prev  == [transactions |-> transactions, subscriptions |-> subscriptions,
                  error |-> error]
        state == IF ok THEN refreshData(prev) ELSE prev
    IN  /\ activeTab = "subscriptions"
        /\ transactions' = state.transactions
        /\ subscriptions' = state.subscriptions
        /\ error' = state.error
        /\ lastOp' = [op |-> "mark", vendor |-> vendor, up |-> up, ok |-> ok,
                      listed |-> Candidates]
        /\ UNCHANGED <<dbTransactions, dbSubscriptions, dbBudgets, nextTxId,
                       nextSubId, activeTab, rejectedVendors,
                       permanentlyRemovedVendors, processingSubscriptions,
                       everRemoved>>
        /\ UNCHANGED analyticsVars

InitMark ==
  /\ dbTransactions = <<>>
  /\ dbSubscriptions = <<>>
  /\ dbBudgets = StoredBudgets
  /\ nextTxId = 1
  /\ nextSubId = 1
  /\ activeTab = "overview"
  /\ error = FALSE
  /\ transactions = <<>>
  /\ subscriptions = <<>>
  /\ rejectedVendors = {}
  /\ permanentlyRemovedVendors = {}
  /\ processingSubscriptions = {}
  /\ lastOp = NoOp
  /\ everRemoved = {}
  /\ insightsRun = FALSE
  /\ anomalies = <<>>
  /\ forecasts = <<>>
  /\ request = NoRequest

NextMark ==
  \/ \E tab \in Tabs : SwitchTab(tab)
  \/ \E t \in UiTxKinds : PostTransaction(t)
  \/ \E c \in Range(Candidates) : HandlePermanentlyRemoveFromAI(c)
  \/ \E vendor \in MarkedVendors : MarkNotSubscription(vendor)

SpecMark == InitMark /\ [][NextMark]_vars

(***************************************************************************)
(* POST, PUT and DELETE /transactions with a budget link                   *)
(***************************************************************************)
\* transactions created while the budgets are studied
MaxLedger == 1

\* the guards keep every budget's spent within -MaxSpent .. MaxSpent
MaxSpent == 80

LedgerAmounts == {-50, 30}

TxTypes == {"income", "expense"}

\* budgetId || null: no budget is written 0, the ids of the table start at 1
NoBudget == 0

\* the budgets a request may name: two of the user, one of another user
BudgetIds == {StoredBudgets[i].id : i \in DOMAIN StoredBudgets}

CreateBodies == [amount : LedgerAmounts, type : TxTypes,
                 budgetId : BudgetIds \cup {NoBudget}]

\* the body of a PUT carries any of the fields; a field it does not carry is
\* undefined
UpdateFields == {"amount", "type", "budgetId"}

UpdateBodies ==
  {[f \in S |-> CASE f = "amount" -> a [] f = "type" -> t [] f = "budgetId" -> b] :
     S \in SUBSET UpdateFields, a \in LedgerAmounts, t \in TxTypes, b \in BudgetIds}

\* what can go wrong in the database while a request is served: nothing, the
\* statement on table transactions fails, the statements on table budgets fail
LedgerFaults == {"none", "statement", "budget"}

\* UPDATE budgets SET spent = spent + ? WHERE id = ? AND user_id = ?
AddSpent(budgets, delta, budgetId, userId) ==
  [i \in DOMAIN budgets |->
     IF budgets[i].id = budgetId /\ budgets[i].user_id = userId
       THEN [budgets[i] EXCEPT !.spent = @ + delta]
       ELSE budgets[i]]

WithinSpent(budgets) ==
  \A i \in DOMAIN budgets : budgets[i].spent \in (0 - MaxSpent)..MaxSpent

\* SELECT * FROM transactions WHERE id = ? AND user_id = ?
OwnTransaction(id, userId) ==
  {i \in DOMAIN dbTransactions :
     dbTransactions[i].id = id /\ dbTransactions[i].user_id = userId}

\* router.post('/'), lines 138-147: only an expense with a budget is added
BudgetsAfterCreate(budgets, body, userId) ==
  IF body.type = "expense" /\ body.budgetId # NoBudget
    THEN AddSpent(budgets, Abs(body.amount), body.budgetId, userId)
    ELSE budgets

\* router.post('/'): the INSERT, then the UPDATE of the budget, whose failure is
\* only logged
CreateTransaction(body, fault) ==
  LET userId   == DEFAULT_USER_ID
      inserted == fault # "statement"
      budgets  == IF inserted /\ fault # "budget"
                    THEN BudgetsAfterCreate(dbBudgets, body, userId)
                    ELSE dbBudgets
  IN  /\ nextTxId <= MaxLedger
      /\ WithinSpent(budgets)
      /\ dbTransactions' =
           IF inserted
             THEN Append(dbTransactions,
                    [id |-> nextTxId, user_id |-> userId, date |-> 0,
                     vendor |-> "v1", amount |-> body.amount,
                     category |-> "Streaming", type |-> body.type,
                     budget_id |-> body.budgetId])
             ELSE dbTransactions
      /\ nextTxId' = IF inserted THEN nextTxId + 1 ELSE nextTxId
      /\ dbBudgets' = budgets
      /\ lastOp' = [op |-> "create", status |-> IF inserted THEN 201 ELSE 500]
      /\ UNCHANGED <<dbSubscriptions, nextSubId>>
      /\ UNCHANGED <<activeTab, error, transactions, subscriptions,
                     rejectedVendors, permanentlyRemovedVendors,
                     processingSubscriptions, everRemoved>>
      /\ UNCHANGED analyticsVars

\* the row after UPDATE transactions SET ... with the fields the body carries
UpdatedRow(row, updates) ==
  [row EXCEPT
     !.amount = IF "amount" \in DOMAIN updates THEN updates.amount ELSE @,
     !.type = IF "type" \in DOMAIN updates THEN updates.type ELSE @,
     !.budget_id = IF "budgetId" \in DOMAIN updates THEN updates.budgetId ELSE @]

\* router.put('/:id'), lines 189-193 and 249-268: when the stored transaction
\* is an expense, its old amount leaves the old budget and the new amount
\* enters the new budget
BudgetsAfterUpdate(budgets, transaction, updates, userId) ==
  LET oldAmount   == transaction.amount
      oldBudgetId == transaction.budget_id
      newAmount   == IF "amount" \in DOMAIN updates THEN updates.amount ELSE oldAmount
      newBudgetId == IF "budgetId" \in DOMAIN updates THEN updates.budgetId
                     ELSE oldBudgetId
      removed     == IF oldBudgetId # NoBudget
                       THEN AddSpent(budgets, 0 - Abs(oldAmount), oldBudgetId, userId)
                       ELSE budgets
      added       == IF newBudgetId # NoBudget
                       THEN AddSpent(removed, Abs(newAmount), newBudgetId, userId)
                       ELSE removed
  IN  IF transaction.type = "expense" THEN added ELSE budgets

\* router.put('/:id')
UpdateTransaction(id, updates, fault) ==
  LET userId  == DEFAULT_USER_ID
      found   == OwnTransaction(id, userId)
      status  == IF found = {} THEN 404
                 ELSE IF DOMAIN updates = {} THEN 400
                 ELSE IF fault = "statement" THEN 500
                 ELSE 200
      i       == CHOOSE j \in found : TRUE
      budgets == IF status = 200 /\ fault # "budget"
                   THEN BudgetsAfterUpdate(dbBudgets, dbTransactions[i], updates, userId)
                   ELSE dbBudgets
  IN  /\ WithinSpent(budgets)
      /\ dbTransactions' =
           IF status = 200
             THEN [dbTransactions EXCEPT ![i] = UpdatedRow(@, updates)]
             ELSE dbTransactions
      /\ dbBudgets' = budgets
      /\ lastOp' = [op |-> "update", status |-> status]
      /\ UNCHANGED <<dbSubscriptions, nextTxId, nextSubId>>
      /\ UNCHANGED <<activeTab, error, transactions, subscriptions,
                     rejectedVendors, permanentlyRemovedVendors,
                     processingSubscriptions, everRemoved>>
      /\ UNCHANGED analyticsVars

\* router.delete('/:id'), lines 328-339
BudgetsAfterDelete(budgets, transaction, userId) ==
  IF transaction.type = "expense" /\ transaction.budget_id # NoBudget
    THEN AddSpent(budgets, 0 - Abs(transaction.amount), transaction.budget_id,
                  userId)
    ELSE budgets

\* router.delete('/:id'): the UPDATE of the budget is issued before the DELETE
\* and neither waits for the other
DeleteTransaction(id, fault) ==
  LET userId  == DEFAULT_USER_ID
      found   == OwnTransaction(id, userId)
      status  == IF found = {} THEN 404
                 ELSE IF fault = "statement" THEN 500
                 ELSE 200
      i       == CHOOSE j \in found : TRUE
      budgets == IF found # {} /\ fault # "budget"
                   THEN BudgetsAfterDelete(dbBudgets, dbTransactions[i], userId)
                   ELSE dbBudgets
  IN  /\ WithinSpent(budgets)
      /\ dbTransactions' =
           IF status = 200
             THEN SelectSeq(dbTransactions, LAMBDA r : r.id # id)
             ELSE dbTransactions
      /\ dbBudgets' = budgets
      /\ lastOp' = [op |-> "delete", status |-> status]
      /\ UNCHANGED <<dbSubscriptions, nextTxId, nextSubId>>
      /\ UNCHANGED <<activeTab, error, transactions, subscriptions,
                     rejectedVendors, permanentlyRemovedVendors,
                     processingSubscriptions, everRemoved>>
      /\ UNCHANGED analyticsVars

\* the ids a request may name: those given out so far
LedgerIds == 1..MaxLedger

\* every statement succeeds
NextLedger ==
  \/ \E body \in CreateBodies : CreateTransaction(body, "none")
  \/ \E id \in LedgerIds, updates \in UpdateBodies :
       UpdateTransaction(id, updates, "none")
  \/ \E id \in LedgerIds : DeleteTransaction(id, "none")

SpecLedger == InitMark /\ [][NextLedger]_vars

\* statements may fail
NextLedgerFaults ==
  \/ \E body \in CreateBodies, fault \in LedgerFaults : CreateTransaction(body, fault)
  \/ \E id \in LedgerIds, updates \in UpdateBodies, fault \in LedgerFaults :
       UpdateTransaction(id, updates, fault)
  \/ \E id \in LedgerIds, fault \in LedgerFaults : DeleteTransaction(id, fault)

SpecLedgerFaults == InitMark /\ [][NextLedgerFaults]_vars

(***************************************************************************)
(* loadAllData on a database that already holds a long history             *)
(***************************************************************************)
\* the longest stored history, longer than the default page of GET /transactions
MaxStored == 52

\* n monthly payments of user 1 to vendor v, the oldest first
PaymentHistory(n, v) ==
  [i \in 1..n |->
     [id |-> i, user_id |-> DEFAULT_USER_ID, date |-> 30 * i, vendor |-> v,
      amount |-> -10, category |-> "Streaming", type |-> TypeOf(-10)]]

InitLoad ==
  /\ dbTransactions \in {PaymentHistory(n, v) : n \in 0..MaxStored, v \in Vendors}
  /\ dbSubscriptions = <<>>
  /\ dbBudgets = <<>>
  /\ nextTxId = Len(dbTransactions) + 1
  /\ nextSubId = 1
  /\ activeTab = "overview"
  /\ error = FALSE
  /\ transactions = <<>>
  /\ subscriptions = <<>>
  /\ rejectedVendors = {}
  /\ permanentlyRemovedVendors = {}
  /\ processingSubscriptions = {}
  /\ lastOp = NoOp
  /\ everRemoved = {}
  /\ insightsRun = FALSE
  /\ anomalies = <<>>
  /\ forecasts = <<>>
  /\ request = NoRequest

NextLoad == \E tab \in Tabs : SwitchTab(tab)

SpecLoad == InitLoad /\ [][NextLoad]_vars

(***************************************************************************)
(* The detector on a database that holds the payments of several vendors   *)
(***************************************************************************)
\* the days on which one vendor was paid
PaymentPatterns == {{}, {0, 30}, {0, 40}, {0, 60}, {0, 100}, {0, 30, 60}, {0, 30, 100}}

PaymentsTo(v, dates, firstId) ==
  LET ds == SortedSeq(dates)
  IN  [i \in DOMAIN ds |->
         [id |-> firstId + i - 1, user_id |-> DEFAULT_USER_ID, date |-> ds[i],
          vendor |-> v, amount |-> -10, category |-> "Streaming",
          type |-> TypeOf(-10)]]

\* the payments to v1 were entered before the payments to v2
StoredPayments(dates1, dates2) ==
  PaymentsTo("v1", dates1, 1) \o PaymentsTo("v2", dates2, Cardinality(dates1) + 1)

InitOrder ==
  /\ dbTransactions \in {StoredPayments(d1, d2) : d1 \in PaymentPatterns,
                                                  d2 \in PaymentPatterns}
  /\ dbSubscriptions = <<>>
  /\ dbBudgets = <<>>
  /\ nextTxId = Len(dbTransactions) + 1
  /\ nextSubId = 1
  /\ activeTab = "overview"
  /\ error = FALSE
  /\ transactions = <<>>
  /\ subscriptions = <<>>
  /\ rejectedVendors = {}
  /\ permanentlyRemovedVendors = {}
  /\ processingSubscriptions = {}
  /\ lastOp = NoOp
  /\ everRemoved = {}
  /\ insightsRun = FALSE
  /\ anomalies = <<>>
  /\ forecasts = <<>>
  /\ request = NoRequest

NextOrder ==
  \/ \E tab \in Tabs : SwitchTab(tab)
  \/ \E c \in Range(Candidates) : HandlePermanentlyRemoveFromAI(c)

SpecOrder == InitOrder /\ [][NextOrder]_vars

(***************************************************************************)
(* Numbers of the server: IEEE 754 binary64, as far as the analyzers that  *)
(* compare at a boundary need them                                         *)
(***************************************************************************)
\* natural numbers of any size: their digits in base 2^14, least significant
\* first, the most significant digit is not 0 (zero is the empty sequence)
LimbBits == 14

LimbBase == 16384

RECURSIVE BNat(_)
BNat(n) == IF n = 0 THEN <<>> ELSE <<n % LimbBase>> \o BNat(n \div LimbBase)

RECURSIVE BTrim(_)
BTrim(a) ==
  IF a = <<>> THEN a
  ELSE IF a[Len(a)] # 0 THEN a
  ELSE BTrim(SubSeq(a, 1, Len(a) - 1))

LimbAt(a, i) == IF i <= Len(a) THEN a[i] ELSE 0

RECURSIVE BAddFrom(_, _, _, _)
BAddFrom(a, b, i, carry) ==
  IF i > Len(a) /\ i > Len(b)
    THEN (IF carry = 0 THEN <<>> ELSE <<carry>>)
    ELSE LET s == LimbAt(a, i) + LimbAt(b, i) + carry
         IN  <<s % LimbBase>> \o BAddFrom(a, b, i + 1, s \div LimbBase)

BAdd(a, b) == BAddFrom(a, b, 1, 0)

\* a - b for a >= b
RECURSIVE BSubFrom(_, _, _, _)
BSubFrom(a, b, i, borrow) ==
  IF i > Len(a) THEN <<>>
  ELSE LET s == LimbAt(a, i) - LimbAt(b, i) - borrow
       IN  <<IF s < 0 THEN s + LimbBase ELSE s>>
             \o BSubFrom(a, b, i + 1, IF s < 0 THEN 1 ELSE 0)

BSub(a, b) == BTrim(BSubFrom(a, b, 1, 0))

RECURSIVE BLessFrom(_, _, _)
BLessFrom(a, b, i) ==
  IF i = 0 THEN FALSE
  ELSE IF a[i] # b[i] THEN a[i] < b[i]
  ELSE BLessFrom(a, b, i - 1)

BLess(a, b) ==
  IF Len(a) # Len(b) THEN Len(a) < Len(b) ELSE BLessFrom(a, b, Len(a))

\* a * c + carry for a digit c
RECURSIVE BMulSmall(_, _, _)
BMulSmall(a, c, carry) ==
  IF a = <<>> THEN (IF carry = 0 THEN <<>> ELSE <<carry>>)
  ELSE LET p == Head(a) * c + carry
       IN  <<p % LimbBase>> \o BMulSmall(Tail(a), c, p \div LimbBase)

LimbShl(a, k) == IF a = <<>> THEN a ELSE [i \in 1..k |-> 0] \o a

RECURSIVE BMul(_, _)
BMul(a, b) ==
  IF a = <<>> \/ b = <<>> THEN <<>>
  ELSE BAdd(BTrim(BMulSmall(b, Head(a), 0)), LimbShl(BMul(Tail(a), b), 1))

\* quotient and remainder of a by a number n below the base
RECURSIVE BDivRaw(_, _)
BDivRaw(a, n) ==
  IF a = <<>> THEN [q |-> <<>>, r |-> 0]
  ELSE LET hi  == BDivRaw(Tail(a), n)
           cur == hi.r * LimbBase + Head(a)
       IN  [q |-> <<cur \div n>> \o hi.q, r |-> cur % n]

BDiv(a, n) == LET d == BDivRaw(a, n) IN [q |-> BTrim(d.q), r |-> d.r]

RECURSIVE Pow2(_)
Pow2(k) == IF k = 0 THEN 1 ELSE 2 * Pow2(k - 1)

\* a * 2^s and the whole part of a / 2^s
BShl(a, s) == LimbShl(BMulSmall(a, Pow2(s % LimbBits), 0), s \div LimbBits)

BShr(a, s) ==
  IF s \div LimbBits >= Len(a) THEN <<>>
  ELSE BDiv(SubSeq(a, (s \div LimbBits) + 1, Len(a)), Pow2(s % LimbBits)).q

\* the number of binary digits
RECURSIVE SmallLen(_)
SmallLen(n) == IF n = 0 THEN 0 ELSE 1 + SmallLen(n \div 2)

BLen(a) == IF a = <<>> THEN 0 ELSE (Len(a) - 1) * LimbBits + SmallLen(a[Len(a)])

BOdd(a) == a # <<>> /\ a[1] % 2 = 1

\* (2 * root * 2^7 + d) * d, what a digit d in base 2^7 adds to the square
SquareGrowth(root, d) == BMulSmall(BMulSmall(root, 256, d), d, 0)

\* the largest digit d in base 2^7 with SquareGrowth(root, d) <= rem, found
\* one binary digit at a time
RECURSIVE RootDigit(_, _, _, _)
RootDigit(root, rem, d, bit) ==
  IF bit = 0 THEN d
  ELSE RootDigit(root, rem,
                 IF BLess(rem, SquareGrowth(root, d + bit)) THEN d ELSE d + bit,
                 bit \div 2)

\* the whole part of the square root of the digits i.. of a and what is left
\* over: one digit of a, which is one digit in base 2^7 of the root, at a time
\* from the top
RECURSIVE BSqrtFrom(_, _)
BSqrtFrom(a, i) ==
  IF i > Len(a) THEN [root |-> <<>>, rem |-> <<>>]
  ELSE LET hi  == BSqrtFrom(a, i + 1)
           rem == BTrim(<<a[i]>> \o hi.rem)
           d   == RootDigit(hi.root, rem, 0, 64)
       IN  IF hi.rem = <<>> /\ a[i] = 0
             THEN [root |-> BMulSmall(hi.root, 128, 0), rem |-> <<>>]
             ELSE [root |-> BMulSmall(hi.root, 128, d),
                   rem  |-> BSub(rem, SquareGrowth(hi.root, d))]

BSqrt(a) == BSqrtFrom(a, 1)

\* IEEE 754 binary64 numbers that are finite and not negative: m * 2^e with m
\* of at most 53 binary digits (the range of the exponent is not modelled)
MantissaBits == 53

\* round to nearest, ties to even
Round53(m, e) ==
  IF BLen(m) <= MantissaBits THEN [m |-> m, e |-> e]
  ELSE LET s      == BLen(m) - MantissaBits
           kept   == BShr(m, s)
           half   == BOdd(BShr(m, s - 1))
           sticky == BShl(BShr(m, s - 1), s - 1) # m
           up     == half /\ (sticky \/ BOdd(kept))
       IN  [m |-> IF up THEN BAdd(kept, <<1>>) ELSE kept, e |-> e + s]

DInt(n) == [m |-> BNat(n), e |-> 0]

DMin(a, b) == IF a < b THEN a ELSE b

DAdd(x, y) ==
  IF x.m = <<>> THEN y
  ELSE IF y.m = <<>> THEN x
  ELSE LET e == DMin(x.e, y.e)
       IN  Round53(BAdd(BShl(x.m, x.e - e), BShl(y.m, y.e - e)), e)

\* x < y
DLess(x, y) ==
  IF y.m = <<>> THEN FALSE
  ELSE IF x.m = <<>> THEN TRUE
  ELSE LET e == DMin(x.e, y.e)
       IN  BLess(BShl(x.m, x.e - e), BShl(y.m, y.e - e))

\* |x - y|, the sign is not needed where the difference is squared
DAbsDiff(x, y) ==
  IF x.m = <<>> THEN y
  ELSE IF y.m = <<>> THEN x
  ELSE LET e  == DMin(x.e, y.e)
           xm == BShl(x.m, x.e - e)
           ym == BShl(y.m, y.e - e)
       IN  Round53(IF BLess(xm, ym) THEN BSub(ym, xm) ELSE BSub(xm, ym), e)

DMul(x, y) ==
  IF x.m = <<>> THEN x
  ELSE IF y.m = <<>> THEN y
  ELSE Round53(BMul(x.m, y.m), x.e + y.e)

\* x / n for a whole number n > 0: 64 more binary digits of quotient, and one
\* digit that says whether anything is left
DDivInt(x, n) ==
  IF x.m = <<>> THEN x
  ELSE LET d == BDiv(BShl(x.m, 64), n)
       IN  Round53(BMulSmall(d.q, 2, IF d.r = 0 THEN 0 ELSE 1), x.e - 65)

DSqrt(x) ==
  IF x.m = <<>> THEN x
  ELSE LET s0   == 110 - BLen(x.m)
           s    == s0 + ((x.e - s0) % 2)
           a    == BShl(x.m, s)
           r    == BSqrt(a)
       IN  Round53(BMulSmall(r.root, 2, IF r.rem = <<>> THEN 0 ELSE 1),
                   ((x.e - s) \div 2) - 1)

\* sum + xs[lo] + ... + xs[hi], added from left to right (the range is split
\* in two only to keep the evaluation shallow)
RECURSIVE DSumRange(_, _, _, _)
DSumRange(xs, sum, lo, hi) ==
  IF sum.m = <<>> /\ lo = hi THEN xs[lo]
  ELSE IF lo > hi THEN sum
  ELSE IF lo = hi THEN DAdd(sum, xs[lo])
  ELSE DSumRange(xs, DSumRange(xs, sum, lo, (lo + hi) \div 2), ((lo + hi) \div 2) + 1, hi)

\* xs.reduce((sum, x) => sum + x, 0) over the first n numbers of xs
DSum(xs, n) == DSumRange(xs, DInt(0), 1, n)

(***************************************************************************)
(* routes/analyticsRoutes.js: detectSpendingAnomalies                      *)
(***************************************************************************)
\* generateAIInsights: SELECT * FROM transactions WHERE user_id = 1 ORDER BY
\* date DESC (rows of one date stay in the order of the table)
DateDescBefore(a, b) == a.date > b.date

AnalysisTransactions(db) ==
  StableSort(SelectSeq(db, LAMBDA t : t.user_id = 1), DateDescBefore)

\* groupBy(array, 'category'): the keys in order of first appearance
RECURSIVE CategoryOrder(_, _)
CategoryOrder(txs, seen) ==
  IF txs = <<>> THEN <<>>
  ELSE IF Head(txs).category \in seen THEN CategoryOrder(Tail(txs), seen)
       ELSE <<Head(txs).category>>
              \o CategoryOrder(Tail(txs), seen \cup {Head(txs).category})

groupBy(txs) ==
  LET keys == CategoryOrder(txs, {})
  IN  [i \in DOMAIN keys |->
         [category     |-> keys[i],
          transactions |-> SelectSeq(txs, LAMBDA t : t.category = keys[i])]]

\* amounts.length * amounts.length * variance, with
\*   mean     = sum / n
\*   variance = (sum of (amt - mean)^2) / n
\* that is ((sum of (n * amt - sum)^2) / n^2) / n * n^2; the division is exact
ScaledVariance(amounts) ==
  LET n   == Len(amounts)
      sum == SumSeq(amounts)
  IN  SumSeq([j \in DOMAIN amounts |-> (n * amounts[j] - sum) * (n * amounts[j] - sum)]) \div n

\* mean = amounts.reduce((sum, amt) => sum + amt, 0) / amounts.length, line 691
MeanOf(amounts) ==
  DDivInt(DSum([j \in DOMAIN amounts |-> DInt(amounts[j])], Len(amounts)), Len(amounts))

\* Math.pow(x, 2)
Square(x) == DMul(x, x)

\* stdDev = Math.sqrt(variance), variance the sum of Math.pow(amt - mean, 2)
\* divided by amounts.length; Math.pow(x, 2) is the rounded product x * x
\* (a mean of 0 is the mean of amounts that are all 0)
StdDevOf(amounts, mean) ==
  IF mean.m = <<>> THEN mean
  ELSE DSqrt(DDivInt(DSum([j \in DOMAIN amounts |->
                             Square(DAbsDiff(DInt(amounts[j]), mean))],
                          Len(amounts)),
                     Len(amounts)))

\* amount > mean + (k * stdDev), lines 700 and 705
Exceeds(amount, mean, stdDev, k) ==
  DLess(DAdd(mean, DMul(DInt(k), stdDev)), DInt(amount))

\* the body of the loop over a group, lines 695-708, once mean and stdDev are
\* computed
FlaggedIn(group, amounts, mean, stdDev) ==
  LET ts      == group.transactions
      n       == Len(amounts)
      sum     == SumSeq(amounts)
      flagged == SelectSeq(ts, LAMBDA t : Exceeds(Abs(t.amount), mean, stdDev, 2))
  IN  IF stdDev.m = <<>> THEN <<>>
      ELSE [j \in DOMAIN flagged |->
              [transaction |-> flagged[j],
               category    |-> group.category,
               \* deviation = (amount - mean) / stdDev, kept as its square
               \* without rounding
               deviationSq |-> [num |-> (n * Abs(flagged[j].amount) - sum)
                                          * (n * Abs(flagged[j].amount) - sum),
                                den |-> ScaledVariance(amounts)],
               severity    |-> IF Exceeds(Abs(flagged[j].amount), mean, stdDev, 3)
                                 THEN "high" ELSE "medium"]]

\* lines 688-693, with the mean handed on to the deviation
GroupStatistics(group, amounts, mean) ==
  FlaggedIn(group, amounts, mean, StdDevOf(amounts, mean))

\* the anomalies one group contributes (lines 688-708)
GroupAnomalies(group) ==
  LET ts      == group.transactions
      amounts == [j \in DOMAIN ts |-> Abs(ts[j].amount)]
  IN  IF Len(amounts) < 3 THEN <<>>
      ELSE GroupStatistics(group, amounts, MeanOf(amounts))

RECURSIVE Flatten(_)
Flatten(ss) == IF ss = <<>> THEN <<>> ELSE Head(ss) \o Flatten(Tail(ss))

detectSpendingAnomalies(txs) ==
  LET groups == groupBy(txs)
  IN  Flatten([i \in DOMAIN groups |-> GroupAnomalies(groups[i])])

RECURSIVE SeqsUpTo(_, _)
SeqsUpTo(S, n) ==
  IF n = 0 THEN {<<>>}
  ELSE LET shorter == SeqsUpTo(S, n - 1)
       IN  shorter \cup {Append(q, x) : q \in shorter, x \in S}

\* rows of table transactions: k rows of amount -10, then the rows of extras
StoredHistory(k, extras) ==
  [i \in 1..(k + Len(extras)) |->
     IF i <= k
       THEN [id |-> i, user_id |-> DEFAULT_USER_ID, date |-> 0, vendor |-> "v1",
             amount |-> -10, category |-> "Streaming", type |-> "expense"]
       ELSE [id |-> i, user_id |-> DEFAULT_USER_ID, date |-> 0, vendor |-> "v2",
             amount |-> extras[i - k].amount, category |-> extras[i - k].category,
             type |-> TypeOf(extras[i - k].amount)]]

StoredHistories ==
  {StoredHistory(k, extras) : k \in 0..MaxTens, extras \in SeqsUpTo(ExtraKinds, MaxExtra)}

\* the server starts on a database file that already holds transactions
InitAnalytics ==
  /\ dbTransactions \in StoredHistories
  /\ dbSubscriptions = <<>>
  /\ dbBudgets = <<>>
  /\ nextTxId = Len(dbTransactions) + 1
  /\ nextSubId = 1
  /\ activeTab = "overview"
  /\ error = FALSE
  /\ transactions = <<>>
  /\ subscriptions = <<>>
  /\ rejectedVendors = {}
  /\ permanentlyRemovedVendors = {}
  /\ processingSubscriptions = {}
  /\ lastOp = NoOp
  /\ everRemoved = {}
  /\ insightsRun = FALSE
  /\ anomalies = <<>>
  /\ forecasts = <<>>
  /\ request = NoRequest

\* generateAIInsights -> generateEnhancedAIInsights, step 1
DetectAnomalies ==
  /\ ~insightsRun
  /\ insightsRun' = TRUE
  /\ anomalies' = detectSpendingAnomalies(AnalysisTransactions(dbTransactions))
  /\ UNCHANGED <<dbBudgets, nextTxId>>
  /\ UNCHANGED <<dbTransactions, dbSubscriptions, nextSubId, forecasts, request>>
  /\ UNCHANGED clientVars

NextAnalytics == DetectAnomalies

SpecAnalytics == InitAnalytics /\ [][NextAnalytics]_vars

(***************************************************************************)
(* JavaScript numbers, kept exact: num / den with den > 0 in lowest terms; *)
(* den = 0 stands for the values that are not finite: 0/0 is NaN, 1/0 is   *)
(* Infinity and -1/0 is -Infinity.                                         *)
(***************************************************************************)
RECURSIVE GCD(_, _)
GCD(a, b) == IF b = 0 THEN a ELSE GCD(b, a % b)

Rat(n, d) ==
  LET g == GCD(Abs(n), Abs(d))
      s == IF d < 0 THEN -1 ELSE 1
  IN  [num |-> (s * n) \div g, den |-> (s * d) \div g]

RInt(i) == [num |-> i, den |-> 1]

NaN == [num |-> 0, den |-> 0]

IsNaN(a) == a.den = 0 /\ a.num = 0

IsFinite(a) == a.den > 0

RAdd(a, b) == Rat(a.num * b.den + b.num * a.den, a.den * b.den)

RSub(a, b) == Rat(a.num * b.den - b.num * a.den, a.den * b.den)

RMul(a, b) == Rat(a.num * b.num, a.den * b.den)

\* a < b, a comparison with NaN being false
RLess(a, b) ==
  IF IsNaN(a) \/ IsNaN(b) THEN FALSE
  ELSE IF ~IsFinite(a) THEN a.num < 0 /\ (IsFinite(b) \/ b.num > 0)
  ELSE IF ~IsFinite(b) THEN b.num > 0
  ELSE a.num * b.den < b.num * a.den

\* a / b for finite a and b: x / 0 is an infinity and 0 / 0 is NaN
JsDiv(a, b) ==
  IF b.num = 0
    THEN [num |-> IF a.num > 0 THEN 1 ELSE IF a.num < 0 THEN -1 ELSE 0, den |-> 0]
    ELSE Rat(a.num * b.den, a.den * b.num)

\* a - b for finite a
JsSub(a, b) ==
  IF IsFinite(b) THEN RSub(a, b) ELSE [num |-> -b.num, den |-> 0]

\* Math.max(a, b) and Math.min(a, b): NaN if either argument is NaN
MathMax(a, b) == IF IsNaN(a) \/ IsNaN(b) THEN NaN ELSE IF RLess(a, b) THEN b ELSE a

MathMin(a, b) == IF IsNaN(a) \/ IsNaN(b) THEN NaN ELSE IF RLess(b, a) THEN b ELSE a

RECURSIVE RSum(_)
RSum(s) == IF s = <<>> THEN RInt(0) ELSE RAdd(Head(s), RSum(Tail(s)))

(***************************************************************************)
(* routes/analyticsRoutes.js: forecastSpending                             *)
(***************************************************************************)
\* transaction.date.substring(0, 7): the month 'YYYY-MM' of a day
MonthKey(date) == date \div 30

\* getMonthlyTrends: the months of the transactions, ascending, each with the
\* sum of the absolute amounts and the number of its transactions
getMonthlyTrends(categoryTransactions) ==
  LET months == SortedSeq({MonthKey(categoryTransactions[i].date) :
                             i \in DOMAIN categoryTransactions})
      of(m)  == SelectSeq(categoryTransactions, LAMBDA t : MonthKey(t.date) = m)
  IN  [k \in DOMAIN months |->
         [month      |-> months[k],
          totalSpent |-> SumSeq([i \in DOMAIN of(months[k]) |->
                                   Abs(of(months[k])[i].amount)]),
          count      |-> Len(of(months[k]))]]

\* dataPoints: x = index, y = data.totalSpent || data.expenses || 0
DataPoints(monthlyData) ==
  [i \in DOMAIN monthlyData |-> [x |-> i - 1, y |-> monthlyData[i].totalSpent]]

\* slope = (n * sumXY - sumX * sumY) / (n * sumXX - sumX * sumX)
Slope(dataPoints) ==
  LET n     == Len(dataPoints)
      sumX  == SumSeq([i \in DOMAIN dataPoints |-> dataPoints[i].x])
      sumY  == SumSeq([i \in DOMAIN dataPoints |-> dataPoints[i].y])
      sumXY == SumSeq([i \in DOMAIN dataPoints |-> dataPoints[i].x * dataPoints[i].y])
      sumXX == SumSeq([i \in DOMAIN dataPoints |-> dataPoints[i].x * dataPoints[i].x])
  IN  JsDiv(RInt(n * sumXY - sumX * sumY), RInt(n * sumXX - sumX * sumX))

\* intercept = (sumY - slope * sumX) / n
Intercept(dataPoints, slope) ==
  LET n    == Len(dataPoints)
      sumX == SumSeq([i \in DOMAIN dataPoints |-> dataPoints[i].x])
      sumY == SumSeq([i \in DOMAIN dataPoints |-> dataPoints[i].y])
  IN  JsDiv(RSub(RInt(sumY), RMul(slope, RInt(sumX))), RInt(n))

\* Predict evaluated at the last index in place of the next one
Predict_AtLastIndex(slope, intercept, n) ==
  RAdd(RMul(slope, RInt(n - 1)), intercept)

\* predictedAmount = slope * n + intercept
Predict(slope, intercept, n) == RAdd(RMul(slope, RInt(n)), intercept)

\* calculateConfidence: R squared, clamped by Math.max(0, Math.min(1, .))
calculateConfidence(dataPoints, slope, intercept) ==
  LET n       == Len(dataPoints)
      yMean   == JsDiv(RInt(SumSeq([i \in DOMAIN dataPoints |-> dataPoints[i].y])),
                       RInt(n))
      sq(a)   == RMul(a, a)
      ssTotal == RSum([i \in DOMAIN dataPoints |->
                         sq(RSub(RInt(dataPoints[i].y), yMean))])
      ssRes   == RSum([i \in DOMAIN dataPoints |->
                         sq(RSub(RInt(dataPoints[i].y),
                                 RAdd(RMul(slope, RInt(dataPoints[i].x)), intercept)))])
  IN  IF n < 2 THEN RInt(0)
      ELSE MathMax(RInt(0), MathMin(RInt(1), JsSub(RInt(1), JsDiv(ssRes, ssTotal))))

\* forecastSpending: null (here the empty list) below 3 months, else a list of
\* one prediction
forecastSpending(monthlyData) ==
  IF Len(monthlyData) < 3 THEN <<>>
  ELSE LET dataPoints == DataPoints(monthlyData)
           slope      == Slope(dataPoints)
           intercept  == Intercept(dataPoints, slope)
       IN  <<[month           |-> 1,
              predictedAmount |-> MathMax(RInt(0),
                                          Predict(slope, intercept, Len(dataPoints))),
              confidence      |-> calculateConfidence(dataPoints, slope, intercept)]>>

\* the forecast of every category of the stored transactions (lines 445-447)
CategoryForecasts(txs) ==
  LET groups == groupBy(txs)
  IN  [i \in DOMAIN groups |->
         [category |-> groups[i].category,
          monthly  |-> getMonthlyTrends(groups[i].transactions),
          forecast |-> forecastSpending(getMonthlyTrends(groups[i].transactions))]]

\* bounds of the histories the forecaster is studied on: one category with a
\* transaction in each of up to MaxMonths consecutive months
MaxMonths == 4

MonthTotals == {0, 100, 200, 300, 400}

ForecastHistory(totals) ==
  [i \in DOMAIN totals |->
     [id |-> i, user_id |-> DEFAULT_USER_ID, date |-> 30 * i + 15, vendor |-> "v1",
      amount |-> -totals[i], category |-> "Streaming", type |-> "expense"]]

ForecastHistories == {ForecastHistory(q) : q \in SeqsUpTo(MonthTotals, MaxMonths)}

InitForecast ==
  /\ dbTransactions \in ForecastHistories
  /\ dbSubscriptions = <<>>
  /\ dbBudgets = <<>>
  /\ nextTxId = Len(dbTransactions) + 1
  /\ nextSubId = 1
  /\ activeTab = "overview"
  /\ error = FALSE
  /\ transactions = <<>>
  /\ subscriptions = <<>>
  /\ rejectedVendors = {}
  /\ permanentlyRemovedVendors = {}
  /\ processingSubscriptions = {}
  /\ lastOp = NoOp
  /\ everRemoved = {}
  /\ insightsRun = FALSE
  /\ anomalies = <<>>
  /\ forecasts = <<>>
  /\ request = NoRequest

\* generateAIInsights -> generateEnhancedAIInsights, step 2
ForecastCategories ==
  /\ ~insightsRun
  /\ insightsRun' = TRUE
  /\ forecasts' = CategoryForecasts(AnalysisTransactions(dbTransactions))
  /\ UNCHANGED <<dbBudgets, nextTxId>>
  /\ UNCHANGED <<dbTransactions, dbSubscriptions, nextSubId, anomalies, request>>
  /\ UNCHANGED clientVars

NextForecast == ForecastCategories

SpecForecast == InitForecast /\ [][NextForecast]_vars

(***************************************************************************)
(* routes/analyticsRoutes.js: the queries of GET /analytics/insights       *)
(***************************************************************************)
\* the category names in the order SQLite compares them; GROUP BY category
\* emits the groups in this order and the sort by totalSpent keeps it for
\* groups of equal totalSpent
CategoryNames == <<"Dining", "Rent", "Salary", "Streaming">>

UserIds == {1, 2}

TimeViews == {"default", "monthly", "yearly", "comprehensive"}

\* the rows a query of the request selects by date (lines 128-152); a month
\* has 30 days and a year 12 months
InWindow(date, req) ==
  IF req.timeView = "comprehensive" THEN TRUE
  ELSE IF req.timeView = "monthly"
    THEN 30 * req.month <= date /\ date <= 30 * req.month + 29
  ELSE IF req.timeView = "yearly"
    THEN 360 * (req.month \div 12) <= date /\ date <= 360 * (req.month \div 12) + 359
  ELSE req.today - 90 <= date /\ date <= req.today

TotalSpentDescBefore(a, b) == a.totalSpent > b.totalSpent

\* categoryQuery (lines 155-177)
SpendingCategories(db, req) ==
  LET rows  == SelectSeq(db, LAMBDA t : /\ t.user_id = req.userId
                                        /\ t.type = "expense"
                                        /\ InWindow(t.date, req))
      of(c) == SelectSeq(rows, LAMBDA t : t.category = c)
      cats  == SelectSeq(CategoryNames, LAMBDA c : of(c) # <<>>)
  IN  StableSort([k \in DOMAIN cats |->
                    [category         |-> cats[k],
                     totalSpent       |-> SumSeq([i \in DOMAIN of(cats[k]) |->
                                                    Abs(of(cats[k])[i].amount)]),
                     transactionCount |-> Len(of(cats[k]))]],
                 TotalSpentDescBefore)

\* trendsQuery (lines 186-204): ORDER BY month DESC
MonthlyTrendRows(db, req) ==
  LET rows   == SelectSeq(db, LAMBDA t : t.user_id = req.userId /\ InWindow(t.date, req))
      months == SortedSeq({MonthKey(rows[i].date) : i \in DOMAIN rows})
      of(m)  == SelectSeq(rows, LAMBDA t : MonthKey(t.date) = m)
      row(m) == [month    |-> m,
                 expenses |-> SumSeq([i \in DOMAIN of(m) |->
                                IF of(m)[i].type = "expense" THEN Abs(of(m)[i].amount) ELSE 0]),
                 income   |-> SumSeq([i \in DOMAIN of(m) |->
                                IF of(m)[i].type = "income" THEN of(m)[i].amount ELSE 0])]
  IN  [k \in DOMAIN months |-> row(months[Len(months) + 1 - k])]

MonthlyCostDescBefore(a, b) == RLess(b.monthlyCost, a.monthlyCost)

\* the subscriptions query (lines 213-227)
SubscriptionInsightRows(db, req) ==
  LET rows == SelectSeq(db, LAMBDA r : r.user_id = req.userId)
  IN  StableSort([i \in DOMAIN rows |->
                    [name        |-> rows[i].name,
                     amount      |-> rows[i].amount,
                     frequency   |-> rows[i].frequency,
                     status      |-> rows[i].status,
                     category    |-> rows[i].category,
                     monthlyCost |-> IF rows[i].frequency = "monthly"
                                       THEN Rat(rows[i].amount.num, rows[i].amount.den)
                                       ELSE Rat(rows[i].amount.num, rows[i].amount.den * 12)]],
                 MonthlyCostDescBefore)

(***************************************************************************)
(* routes/analyticsRoutes.js: generateEnhancedAIInsights                   *)
(***************************************************************************)
InsightId(kind, key, index) == [kind |-> kind, key |-> key, index |-> index]

\* an insight; figure is the number it carries (savings, targetAmount or
\* confidence), 0 when it carries none
Insight(id, category, impact, type, actionable, priority, figure) ==
  [id |-> id, category |-> category, impact |-> impact, type |-> type,
   actionable |-> actionable, priority |-> priority, figure |-> figure]

calculateCategoryAverage(txs, category) ==
  LET ts == SelectSeq(txs, LAMBDA t : t.category = category)
  IN  IF Len(ts) > 0
        THEN Rat(SumSeq([i \in DOMAIN ts |-> Abs(ts[i].amount)]), Len(ts))
        ELSE RInt(0)

\* 1. anomaly detection (lines 428-442)
AnomalyInsightsFor(txs, found) ==
  [i \in DOMAIN found |->
     Insight(InsightId("anomaly", "", i - 1), "Anomaly Detection",
             found[i].severity, "anomaly_detection", TRUE,
             IF found[i].severity = "high" THEN "high" ELSE "medium",
             RSub(RInt(Abs(found[i].transaction.amount)),
                  calculateCategoryAverage(txs, found[i].category)))]

AnomalyInsights(txs) == AnomalyInsightsFor(txs, detectSpendingAnomalies(txs))

getCurrentMonthSpending(categoryTransactions, today) ==
  LET ts == SelectSeq(categoryTransactions, LAMBDA t : MonthKey(t.date) = MonthKey(today))
  IN  SumSeq([i \in DOMAIN ts |-> Abs(ts[i].amount)])

\* ExceedsCurrent without the margin of 10%
ExceedsCurrent_NoMargin(predictedAmount, currentMonthSpending) ==
  RLess(RInt(currentMonthSpending), predictedAmount)

\* nextMonthPrediction.predictedAmount > currentMonthSpending * 1.1 (line 452)
ExceedsCurrent(predictedAmount, currentMonthSpending) ==
  RLess(RMul(RInt(currentMonthSpending), Rat(11, 10)), predictedAmount)

\* 2. forecasting (lines 444-466)
ForecastInsights(txs, today) ==
  LET groups  == groupBy(txs)
      fc(i)   == forecastSpending(getMonthlyTrends(groups[i].transactions))
      cur(i)  == getCurrentMonthSpending(groups[i].transactions, today)
      emit(i) == /\ Len(fc(i)) > 0
                 /\ ExceedsCurrent(fc(i)[1].predictedAmount, cur(i))
  IN  Flatten([i \in DOMAIN groups |->
         IF emit(i)
           THEN <<Insight(InsightId("forecast", groups[i].category, 0),
                          "Spending Forecast", "medium", "forecasting", TRUE,
                          "medium", fc(i)[1].confidence)>>
           ELSE <<>>])

\* the numbers 1.2 and 0.8 of line 780: the binary64 numbers nearest to them
OnePointTwo == DDivInt(DInt(6), 5)

ZeroPointEight == DDivInt(DInt(4), 5)

\* avg > overallAvg * 1.2 ? 'high' : avg < overallAvg * 0.8 ? 'low' : 'normal'
SeasonPattern(avg, overallAvg) ==
  IF DLess(DMul(overallAvg, OnePointTwo), avg) THEN "high"
  ELSE IF DLess(avg, DMul(overallAvg, ZeroPointEight)) THEN "low"
  ELSE "normal"

\* detectSeasonalPatterns: one entry per calendar month 0..11; avgSpending and
\* seasonality are kept as exact quotients, pattern is decided on the numbers
\* the code computes (lines 769-773 and 780)
detectSeasonalPatterns(txs) ==
  LET of(m)      == SelectSeq(txs, LAMBDA t : MonthKey(t.date) % 12 = m)
      total(m)   == SumSeq([i \in DOMAIN of(m) |-> Abs(of(m)[i].amount)])
      avg(m)     == IF Len(of(m)) > 0 THEN Rat(total(m), Len(of(m))) ELSE RInt(0)
      overallAvg == JsDiv(RSum([k \in 1..12 |-> avg(k - 1)]), RInt(12))
      avgNumber(m) == IF Len(of(m)) > 0
                        THEN DDivInt(DInt(total(m)), Len(of(m))) ELSE DInt(0)
      overallAvgNumber == DDivInt(DSum([k \in 1..12 |-> avgNumber(k - 1)], 12), 12)
  IN  [m \in 0..11 |->
         [month       |-> m,
          avgSpending |-> avg(m),
          seasonality |-> IF RLess(RInt(0), overallAvg)
                            THEN JsDiv(avg(m), overallAvg) ELSE RInt(1),
          pattern     |-> SeasonPattern(avgNumber(m), overallAvgNumber)]]

\* 3. seasonal patterns (lines 468-484)
SeasonalInsights(txs, today) ==
  LET currentSeasonality == detectSeasonalPatterns(txs)[MonthKey(today) % 12]
  IN  IF currentSeasonality.pattern = "high"
        THEN <<Insight(InsightId("seasonal_high", "", 0), "Seasonal Patterns",
                       "medium", "seasonal_analysis", TRUE, "medium",
                       currentSeasonality.seasonality)>>
        ELSE <<>>

FrequencyDescBefore(a, b) == a.frequency > b.frequency

\* analyzeVendorPatterns: the vendors, the most frequent first
analyzeVendorPatterns(txs) ==
  LET names == VendorOrder(txs, {})
      of(v) == SelectSeq(txs, LAMBDA t : t.vendor = v)
  IN  StableSort([k \in DOMAIN names |->
                    [name       |-> names[k],
                     frequency  |-> Len(of(names[k])),
                     totalSpent |-> SumSeq([i \in DOMAIN of(names[k]) |->
                                              Abs(of(names[k])[i].amount)])]],
                 FrequencyDescBefore)

\* VisitsOften with >= in place of >
VisitsOften_AtLeast8(frequency) == frequency >= 8

\* vendor.frequency > 8, line 489
VisitsOften(frequency) == frequency > 8

\* 4. behavioral patterns (lines 486-502)
BehavioralInsights(txs) ==
  LET top == Take(analyzeVendorPatterns(txs), 3)
  IN  Flatten([i \in DOMAIN top |->
         IF VisitsOften(top[i].frequency)
           THEN <<Insight(InsightId("behavior", "", i - 1), "Behavioral Patterns",
                          IF top[i].totalSpent > 200 THEN "high" ELSE "medium",
                          "behavioral_analysis", TRUE,
                          IF top[i].totalSpent > 200 THEN "high" ELSE "medium",
                          Rat(top[i].totalSpent * 2, 10))>>
           ELSE <<>>])

calculateMonthlyIncome(txs, today) ==
  LET ts == SelectSeq(txs, LAMBDA t : MonthKey(t.date) = MonthKey(today) /\ t.amount > 0)
  IN  SumSeq([i \in DOMAIN ts |-> ts[i].amount])

calculateMonthlyExpenses(txs, today) ==
  LET ts == SelectSeq(txs, LAMBDA t : MonthKey(t.date) = MonthKey(today) /\ t.amount < 0)
  IN  SumSeq([i \in DOMAIN ts |-> Abs(ts[i].amount)])

\* savingsRate (line 507)
SavingsRate(monthlyIncome, monthlyExpenses) ==
  IF monthlyIncome > 0
    THEN Rat((monthlyIncome - monthlyExpenses) * 100, monthlyIncome)
    ELSE RInt(0)

\* TargetAmount without the savings already made
TargetAmount_IgnoreSavings(monthlyIncome, monthlyExpenses) ==
  RMul(RInt(monthlyIncome), Rat(2, 10))

\* targetAmount: (monthlyIncome * 0.2) - (monthlyIncome - monthlyExpenses)
TargetAmount(monthlyIncome, monthlyExpenses) ==
  RSub(RMul(RInt(monthlyIncome), Rat(2, 10)), RInt(monthlyIncome - monthlyExpenses))

\* 5. goal-based insights (lines 504-531)
GoalInsights(txs, today) ==
  LET monthlyIncome   == calculateMonthlyIncome(txs, today)
      monthlyExpenses == calculateMonthlyExpenses(txs, today)
  IN  IF RLess(SavingsRate(monthlyIncome, monthlyExpenses), RInt(20))
        THEN <<Insight(InsightId("savings_goal", "", 0), "Financial Goals", "high",
                       "goal_oriented", TRUE, "high",
                       TargetAmount(monthlyIncome, monthlyExpenses))>>
        ELSE <<Insight(InsightId("savings_excellent", "", 0), "Financial Goals",
                       "positive", "goal_oriented", FALSE, "low", RInt(0))>>

\* 6. category optimization (lines 533-547)
CategoryOptimizationInsights(spendingCategories) ==
  LET topCategory == spendingCategories[1]
  IN  IF topCategory.totalSpent > 300
        THEN <<Insight(InsightId("category_optimization", "", 0),
                       "Category Optimization", "high", "category_optimization",
                       TRUE, "high", RInt(RoundDiv(topCategory.totalSpent * 15, 100)))>>
        ELSE <<>>

\* changePercentage (line 554)
ChangePercentage(latestMonth, previousMonth) ==
  IF previousMonth.expenses > 0
    THEN Rat((latestMonth.expenses - previousMonth.expenses) * 100, previousMonth.expenses)
    ELSE RInt(0)

RAbs(a) == [num |-> Abs(a.num), den |-> a.den]

\* TrendImpact with >= in place of >
TrendImpact_AtLeast25(changePercentage) ==
  IF ~RLess(RAbs(changePercentage), RInt(25)) THEN "high" ELSE "medium"

\* Math.abs(changePercentage) > 25 ? 'high' : 'medium'
TrendImpact(changePercentage) ==
  IF RLess(RInt(25), RAbs(changePercentage)) THEN "high" ELSE "medium"

\* TrendEmits with a change of exactly 15% emitted too
TrendEmits_AtLeast15(changePercentage) == ~RLess(RAbs(changePercentage), RInt(15))

\* Math.abs(changePercentage) > 15 (line 556)
TrendEmits(changePercentage) == RLess(RInt(15), RAbs(changePercentage))

\* 7. trend analysis (lines 549-569)
TrendInsights(monthlyTrends) ==
  IF Len(monthlyTrends) > 1
    THEN LET spendingChange   == monthlyTrends[1].expenses - monthlyTrends[2].expenses
             changePercentage == ChangePercentage(monthlyTrends[1], monthlyTrends[2])
         IN  IF TrendEmits(changePercentage)
               THEN <<Insight(InsightId("trend_analysis", "", 0), "Trend Analysis",
                              TrendImpact(changePercentage), "trend_analysis",
                              spendingChange > 0, TrendImpact(changePercentage),
                              IF spendingChange > 0
                                THEN RInt(RoundDiv(Abs(spendingChange) * 2, 10))
                                ELSE RInt(0))>>
               ELSE <<>>
    ELSE <<>>

\* 8. subscription optimization (lines 571-597)
SubscriptionInsights(subs) ==
  IF Len(subs) = 0
    THEN <<Insight(InsightId("subscription_status", "", 0), "Subscription Management",
                   "positive", "subscription_status", FALSE, "low", RInt(0))>>
    ELSE LET totalMonthlySubscriptions == RSum([i \in DOMAIN subs |-> subs[i].monthlyCost])
         IN  IF RLess(RInt(100), totalMonthlySubscriptions)
               THEN <<Insight(InsightId("subscription_optimization", "", 0),
                              "Subscription Management", "medium",
                              "subscription_optimization", TRUE, "medium",
                              RInt(RoundDiv(totalMonthlySubscriptions.num * 2,
                                            totalMonthlySubscriptions.den * 10)))>>
               ELSE <<>>

generateEnhancedAIInsights(txs, spendingCategories, monthlyTrends, subs, today) ==
  IF Len(spendingCategories) = 0 THEN <<>>
  ELSE AnomalyInsights(txs)
         \o ForecastInsights(txs, today)
         \o SeasonalInsights(txs, today)
         \o BehavioralInsights(txs)
         \o GoalInsights(txs, today)
         \o CategoryOptimizationInsights(spendingCategories)
         \o TrendInsights(monthlyTrends)
         \o SubscriptionInsights(subs)

\* generateTimeTrendInsights; now is later than midnight, so that a
\* transaction dated d days ago is at or after now - k days exactly when d < k
generateTimeTrendInsights(txs, today) ==
  LET thisMonth     == 30 * MonthKey(today)
      spent(ts)     == SumSeq([i \in DOMAIN ts |-> Abs(ts[i].amount)])
      expenses      == SelectSeq(txs, LAMBDA t : t.amount < 0)
      todaySpending == spent(SelectSeq(expenses, LAMBDA t : t.date = today))
      avgDaily      == Rat(spent(SelectSeq(expenses, LAMBDA t : t.date >= thisMonth)), 30)
      daily         == IF todaySpending > 0
                            /\ RLess(RMul(avgDaily, RInt(2)), RInt(todaySpending))
                         THEN <<Insight(InsightId("today_high_spending", "", 0),
                                        "Today's Spending Alert", "high", "daily_alert",
                                        TRUE, "high", RInt(0))>>
                         ELSE <<>>
      thisWeek      == SelectSeq(expenses, LAMBDA t : t.date > today - 7)
      cats          == CategoryOrder(thisWeek, {})
      weekOf(c)     == spent(SelectSeq(thisWeek, LAMBDA t : t.category = c))
      monthlyAvg(c) == Rat(spent(SelectSeq(expenses, LAMBDA t :
                                   t.category = c /\ t.date >= thisMonth)), 4)
      weekly        == Flatten([k \in DOMAIN cats |->
                         IF RLess(RMul(monthlyAvg(cats[k]), Rat(15, 10)), RInt(weekOf(cats[k])))
                           THEN <<Insight(InsightId("week_high", cats[k], 0),
                                          "Weekly Spending Pattern", "medium",
                                          "weekly_pattern", TRUE, "medium", RInt(0))>>
                           ELSE <<>>])
      recent        == SelectSeq(expenses, LAMBDA t : t.date > today - 3)
      avgAmount     == JsDiv(RInt(spent(expenses)), RInt(Len(expenses)))
      unusual       == SelectSeq(recent, LAMBDA t :
                         RLess(RMul(avgAmount, RInt(3)), RInt(Abs(t.amount))))
      recents       == [i \in DOMAIN unusual |->
                         Insight(InsightId("recent_unusual", "", i - 1),
                                 "Recent Unusual Spending", "medium", "recent_alert",
                                 TRUE, "medium", RInt(0))]
  IN  daily \o weekly \o (IF Len(recent) > 0 THEN recents ELSE <<>>)

\* generateNoDataInsights
generateNoDataInsights(timeView) ==
  IF timeView \in {"monthly", "yearly"}
    THEN <<Insight(InsightId("1", "", 0), "Data", "low", "data_encouragement",
                   FALSE, "", RInt(0))>>
    ELSE <<>>

\* InsightsOnThrow with reject(error) in the catch block: the .catch of the
\* route then answers with generateNoDataInsights
InsightsOnThrow_Reject(timeView) == generateNoDataInsights(timeView)

\* the catch block of generateAIInsights (lines 643-646): resolve([])
InsightsOnThrow(timeView) == <<>>

\* what generateAIInsights resolves with. fault is what goes wrong while it
\* runs: "query" is an error of db.all, "throw" an exception inside the try
\* block (for instance the argument spread of Math.max(...) in
\* analyzeVendorPatterns on a very long list).
generateAIInsights(db, req, fault) ==
  LET txs == AnalysisTransactions(db)
  IN  IF fault = "query" THEN <<>>
      ELSE IF fault = "throw" THEN InsightsOnThrow(req.timeView)
      ELSE generateEnhancedAIInsights(txs, req.categories, req.trends,
                                      req.subscriptions, req.today)
             \o (IF req.timeView = "comprehensive"
                   THEN generateTimeTrendInsights(txs, req.today) ELSE <<>>)

(***************************************************************************)
(* GET /analytics/insights/:userId                                         *)
(***************************************************************************)
MaxRequests == 2

MaxRows == 3

\* the date of the requests, and the month a monthly or yearly request names
Todays == {100}

RequestMonths == {3}

InsightTxKinds ==
  {[user_id |-> 1, date |-> 95, vendor |-> "v1", amount |-> 2000, category |-> "Salary"],
   [user_id |-> 1, date |-> 96, vendor |-> "v2", amount |-> -1800, category |-> "Rent"],
   [user_id |-> 1, date |-> 97, vendor |-> "v1", amount |-> -500, category |-> "Dining"],
   [user_id |-> 1, date |-> 65, vendor |-> "v1", amount |-> -400, category |-> "Dining"],
   [user_id |-> 2, date |-> 97, vendor |-> "v2", amount |-> -500, category |-> "Dining"]}

InsightHistory(kinds) ==
  [i \in DOMAIN kinds |->
     [id |-> i, user_id |-> kinds[i].user_id, date |-> kinds[i].date,
      vendor |-> kinds[i].vendor, amount |-> kinds[i].amount,
      category |-> kinds[i].category, type |-> TypeOf(kinds[i].amount)]]

InsightHistories == {InsightHistory(q) : q \in SeqsUpTo(InsightTxKinds, MaxRows)}

StoredSubscriptions ==
  {<<>>,
   <<[id |-> 1, user_id |-> 1, name |-> "v1", amount |-> [num |-> 120, den |-> 1],
      frequency |-> "monthly", nextBilling |-> 130, category |-> "Streaming",
      status |-> "active"]>>,
   <<[id |-> 1, user_id |-> 1, name |-> "v2", amount |-> [num |-> 60, den |-> 1],
      frequency |-> "yearly", nextBilling |-> 130, category |-> "Streaming",
      status |-> "forgotten"]>>}

InitInsights ==
  /\ dbTransactions \in InsightHistories
  /\ dbSubscriptions \in StoredSubscriptions
  /\ dbBudgets = <<>>
  /\ nextTxId = Len(dbTransactions) + 1
  /\ nextSubId = Len(dbSubscriptions) + 1
  /\ activeTab = "overview"
  /\ error = FALSE
  /\ transactions = <<>>
  /\ subscriptions = <<>>
  /\ rejectedVendors = {}
  /\ permanentlyRemovedVendors = {}
  /\ processingSubscriptions = {}
  /\ lastOp = NoOp
  /\ everRemoved = {}
  /\ insightsRun = FALSE
  /\ anomalies = <<>>
  /\ forecasts = <<>>
  /\ request = NoRequest

\* the route handler up to the call of generateAIInsights: the three queries,
\* each answered in the callback of the one before. dbUp: no query fails.
ReceiveInsightsRequest(userId, timeView, month, today, dbUp) ==
  LET req  == [NoRequest EXCEPT !.n = request.n + 1, !.userId = userId,
                 !.timeView = timeView, !.month = month, !.today = today]
      cats == SpendingCategories(dbTransactions, req)
      trds == MonthlyTrendRows(dbTransactions, req)
      subs == SubscriptionInsightRows(dbSubscriptions, req)
      got  == [req EXCEPT !.categories = cats, !.trends = trds, !.subscriptions = subs]
  IN  /\ request.pc \notin {"generating", "resolved"}
      /\ request.n < MaxRequests
      /\ request' =
           IF ~dbUp
             THEN [req EXCEPT !.pc = "responded", !.status = 500, !.sent = 1]
           ELSE IF Len(cats) > 0 \/ Len(trds) > 0
             THEN [got EXCEPT !.pc = "generating"]
           \* lines 297-303: insights is assigned and the callback returns
           ELSE [got EXCEPT !.pc = "nodata",
                            !.insights = generateNoDataInsights(timeView)]
      /\ UNCHANGED <<dbBudgets, nextTxId>>
      /\ UNCHANGED <<dbTransactions, dbSubscriptions, nextSubId, insightsRun,
                     anomalies, forecasts>>
      /\ UNCHANGED clientVars

\* the callback of the query of generateAIInsights (lines 617-647): the
\* analyzers run and the promise is resolved with their list
ResolveInsights(fault) ==
  /\ request.pc = "generating"
  /\ request' = [request EXCEPT
                   !.pc = "resolved", !.fault = fault,
                   !.insights = generateAIInsights(dbTransactions, request, fault)]
  /\ UNCHANGED <<dbBudgets, nextTxId>>
  /\ UNCHANGED <<dbTransactions, dbSubscriptions, nextSubId, insightsRun,
                 anomalies, forecasts>>
  /\ UNCHANGED clientVars

\* the .then handler of the route (lines 238-265): res.json
SendInsights ==
  /\ request.pc = "resolved"
  /\ request' = [request EXCEPT !.pc = "responded", !.status = 200,
                                !.sent = request.sent + 1]
  /\ UNCHANGED <<dbBudgets, nextTxId>>
  /\ UNCHANGED <<dbTransactions, dbSubscriptions, nextSubId, insightsRun,
                 anomalies, forecasts>>
  /\ UNCHANGED clientVars

NextInsights ==
  \/ \E userId \in UserIds, timeView \in TimeViews, month \in RequestMonths,
        today \in Todays, dbUp \in BOOLEAN :
       ReceiveInsightsRequest(userId, timeView, month, today, dbUp)
  \/ \E fault \in {"none", "query", "throw"} : ResolveInsights(fault)
  \/ SendInsights

SpecInsights == InitInsights /\ [][NextInsights]_vars

\* the callbacks of sqlite3 and the promise reactions are always run.
\* ResolveInsights is enabled exactly when request.pc = "generating" and every
\* step of it leaves that position, so []<>(request.pc # "generating") is weak
\* fairness of ResolveInsights with its enabling condition written out.
SpecInsightsFair ==
  /\ SpecInsights
  /\ []<>(request.pc # "generating")
  /\ WF_vars(SendInsights)

(***************************************************************************)
(* GET /analytics/insights on the stored histories each analyzer is        *)
(* studied on                                                              *)
(***************************************************************************)
\* the server is started on a database that holds the given transactions and
\* subscriptions; no client request has been made
InitStore(histories, subscriptionLists) ==
  /\ dbTransactions \in histories
  /\ dbSubscriptions \in subscriptionLists
  /\ dbBudgets = <<>>
  /\ nextTxId = Len(dbTransactions) + 1
  /\ nextSubId = 2
  /\ activeTab = "overview"
  /\ error = FALSE
  /\ transactions = <<>>
  /\ subscriptions = <<>>
  /\ rejectedVendors = {}
  /\ permanentlyRemovedVendors = {}
  /\ processingSubscriptions = {}
  /\ lastOp = NoOp
  /\ everRemoved = {}
  /\ insightsRun = FALSE
  /\ anomalies = <<>>
  /\ forecasts = <<>>
  /\ request = NoRequest

\* forecasting: one category with a transaction in each of up to
\* MaxInsightMonths consecutive months, the last one the month of the request
MaxInsightMonths == 3

ForecastInsightHistories ==
  {ForecastHistory(q) : q \in SeqsUpTo(MonthTotals, MaxInsightMonths)}

InitForecastInsights == InitStore(ForecastInsightHistories, {<<>>})

\* trend analysis: the expenses of the month of the request and what the month
\* before it holds: nothing, an expense or a salary
TrendTotals == {0, 400, 440, 460, 480, 500, 520}

TrendRow(id, date, amount, type) ==
  [id |-> id, user_id |-> DEFAULT_USER_ID, date |-> date, vendor |-> "v1",
   amount |-> amount, category |-> IF type = "income" THEN "Salary" ELSE "Dining",
   type |-> type]

TrendHistories ==
  {<<TrendRow(1, 95, -latest, "expense")>> : latest \in TrendTotals}
    \cup {<<TrendRow(1, 65, -previous, "expense"), TrendRow(2, 95, -latest, "expense")>> :
            previous \in TrendTotals, latest \in TrendTotals}
    \cup {<<TrendRow(1, 65, 1000, "income"), TrendRow(2, 95, -latest, "expense")>> :
            latest \in TrendTotals}

InitTrend == InitStore(TrendHistories, {<<>>})

\* the requests of a client while the database answers and no analyzer throws
\* one or two transactions in the current calendar month (3) and at most one
\* in the month before, or a single transaction of another user
SeasonCurrent == {<<100>>, <<50, 150>>, <<70>>, <<120>>}

SeasonOther == {0, 70, 100, 630, 900, 1400}

SeasonRow(id, userId, date, amount) ==
  [id |-> id, user_id |-> userId, date |-> date, vendor |-> "v1", amount |-> -amount,
   category |-> "Dining", type |-> "expense"]

SeasonHistory(current, other) ==
  [i \in DOMAIN current |-> SeasonRow(i, DEFAULT_USER_ID, 95, current[i])]
    \o (IF other = 0 THEN <<>>
        ELSE <<SeasonRow(Len(current) + 1, DEFAULT_USER_ID, 65, other)>>)

SeasonHistories ==
  {SeasonHistory(current, other) : current \in SeasonCurrent, other \in SeasonOther}
    \cup {<<SeasonRow(1, 2, 95, 100)>>}

InitSeason == InitStore(SeasonHistories, {<<>>})

\* the visits to one vendor: n expenses in the current month, the last one of
\* amount last and the others of amount amount
VisitKinds == {[n |-> 0, amount |-> 0, last |-> 0],
               [n |-> 8, amount |-> 30, last |-> 30],
               [n |-> 9, amount |-> 20, last |-> 20],
               [n |-> 9, amount |-> 22, last |-> 24],
               [n |-> 9, amount |-> 25, last |-> 25],
               [n |-> 10, amount |-> 10, last |-> 10]}

FewVisitKinds == {k \in VisitKinds : k.n \in {0, 9} /\ k.amount # 22}

Visits(v, kind, firstId) ==
  [i \in 1..kind.n |->
     [id |-> firstId + i, user_id |-> DEFAULT_USER_ID, date |-> 95, vendor |-> v,
      amount |-> -(IF i = kind.n THEN kind.last ELSE kind.amount),
      category |-> "Dining", type |-> "expense"]]

VisitHistories ==
  {Visits("v1", k1, 0) \o Visits("v2", k2, k1.n) \o Visits("v3", k3, k1.n + k2.n)
     \o Visits("v4", k4, k1.n + k2.n + k3.n) :
     k1 \in VisitKinds, k2 \in FewVisitKinds, k3 \in FewVisitKinds, k4 \in FewVisitKinds}

InitVisits == InitStore(VisitHistories, {<<>>})

NextAnalyzers ==
  \/ \E userId \in UserIds, timeView \in TimeViews, month \in RequestMonths,
        today \in Todays :
       ReceiveInsightsRequest(userId, timeView, month, today, TRUE)
  \/ ResolveInsights("none")
  \/ SendInsights

SpecForecastInsights == InitForecastInsights /\ [][NextAnalyzers]_vars

SpecTrend == InitTrend /\ [][NextAnalyzers]_vars

SpecSeason == InitSeason /\ [][NextAnalyzers]_vars

SpecVisits == InitVisits /\ [][NextAnalyzers]_vars

(***************************************************************************)
(* Properties of the detector, stated on the transaction list itself       *)
(***************************************************************************)
\* positions of the expense transactions of vendor v in the client's list
ExpenseIdx(v) ==
  {i \in DOMAIN transactions : transactions[i].vendor = v /\ transactions[i].amount < 0}

ExpenseDates(v) == {transactions[i].date : i \in ExpenseIdx(v)}

Excluded(v) == v \in rejectedVendors \/ v \in permanentlyRemovedVendors

RECURSIVE SpentOver(_)
SpentOver(idx) ==
  IF idx = {} THEN 0
  ELSE LET i == CHOOSE j \in idx : TRUE
       IN  Abs(transactions[i].amount) + SpentOver(idx \ {i})

\* at least 3 expense transactions, no two on the same day, each but the
\* earliest exactly 30 days after another one
Strict30(v) ==
  LET ds == ExpenseDates(v)
  IN  /\ Cardinality(ExpenseIdx(v)) >= 3
      /\ Cardinality(ds) = Cardinality(ExpenseIdx(v))
      /\ \A d \in ds : d = Min(ds) \/ (d - 30) \in ds

CandidatesOf(v) == {i \in DOMAIN Candidates : Candidates[i].vendor = v}

\* C1: a vendor that is not excluded and has at least 3 expense transactions
\* spaced exactly 30 days apart gets exactly one candidate, monthly, with
\* confidence 0.9.
C1_Strict30IsMonthly ==
  \A v \in Vendors :
    (~Excluded(v) /\ Strict30(v)) =>
      /\ Cardinality(CandidatesOf(v)) = 1
      /\ \A i \in CandidatesOf(v) :
           Candidates[i].frequency = "monthly" /\ Candidates[i].confidence = 90

C1_Witness ==
  /\ activeTab = "subscriptions"
  /\ \E v \in Vendors : ~Excluded(v) /\ Strict30(v) /\ CandidatesOf(v) # {}

\* C2: the predicted next billing date of every candidate is the latest date
\* of the vendor's expense transactions plus the average gap, the average of
\* the k - 1 gaps between the k distinct dates being (latest - earliest) / (k - 1).
C2_NextBillingFromLatest ==
  \A i \in DOMAIN Candidates :
    LET c  == Candidates[i]
        ds == ExpenseDates(c.vendor)
        k  == Cardinality(ds)
    IN  c.nextBilling.num * (k - 1) =
          (Max(ds) * (k - 1) + (Max(ds) - Min(ds))) * c.nextBilling.den

\* C3: a vendor whose expense transactions fall on at most one date (a single
\* transaction, or several on the same day) has no candidate, and no candidate
\* carries a quotient with a zero divisor.
C3_NoGapNoCandidate ==
  /\ \A v \in Vendors : Cardinality(ExpenseDates(v)) <= 1 => CandidatesOf(v) = {}
  /\ \A i \in DOMAIN Candidates :
       Candidates[i].nextBilling.den > 0 /\ Candidates[i].amount.den > 0

C3_Witness ==
  /\ activeTab = "subscriptions"
  /\ \E v \in Vendors : /\ ~Excluded(v)
                        /\ Cardinality(ExpenseIdx(v)) >= 2
                        /\ Cardinality(ExpenseDates(v)) = 1
  /\ \E v \in Vendors : ~Excluded(v) /\ Cardinality(ExpenseIdx(v)) = 1

C6_RequestAccepted ==
  lastOp.op = "confirm" => PostSubscriptionValid(lastOp.body)

\* C7: the frequency sent is yearly exactly when the candidate's cycle is
\* yearly and monthly for every other cycle, so the frequency check of the
\* endpoint never fails.
C7_FrequencyNormalized ==
  /\ lastOp.op = "confirm" =>
       /\ FrequencyValid(lastOp.body)
       /\ lastOp.body.frequency =
             (IF lastOp.cycle = "yearly" THEN "yearly" ELSE "monthly")
  /\ \A cycle \in {"monthly", "yearly", "irregular", "unknown"} :
       NormalizeFrequency(cycle) = (IF cycle = "yearly" THEN "yearly" ELSE "monthly")

C7_Witness == lastOp.op = "confirm" /\ lastOp.cycle = "irregular"

\* C8: a confirmation whose subscription is not persisted alerts the user,
\* leaves both exclusion sets and the local subscription list as they were,
\* keeps the vendor a candidate and removes the candidate's id from
\* processingSubscriptions. The candidate list is a memo of transactions and
\* the two exclusion sets: with the three unchanged by the step, the list after
\* the step is the list before it.
C8_FailedConfirmKeepsState ==
  [][(lastOp'.op = "confirm" /\ ~lastOp'.ok) =>
       /\ lastOp'.alerted
       /\ rejectedVendors' = rejectedVendors
       /\ permanentlyRemovedVendors' = permanentlyRemovedVendors
       /\ subscriptions' = subscriptions
       /\ lastOp'.id \notin processingSubscriptions'
       /\ transactions' = transactions
       /\ lastOp'.vendor \in CandidateVendors]_vars

C8_Witness ==
  /\ lastOp.op = "confirm" /\ ~lastOp.ok /\ lastOp.alerted
  /\ lastOp.vendor \in CandidateVendors
  /\ lastOp.id \notin processingSubscriptions

\* C9: a vendor handlePermanentlyRemoveFromAI was invoked for is never a
\* candidate again.
C9_RemovedStaysHidden == \A v \in everRemoved : v \notin CandidateVendors

(***************************************************************************)
(* Properties of the anomaly detector                                      *)
(***************************************************************************)
Analysed == AnalysisTransactions(dbTransactions)

\* positions of the transactions of the category of transaction i
GroupOf(i) == {j \in DOMAIN Analysed : Analysed[j].category = Analysed[i].category}

RECURSIVE SumAbs(_)
SumAbs(idx) ==
  IF idx = {} THEN 0
  ELSE LET i == CHOOSE j \in idx : TRUE
       IN  Abs(Analysed[i].amount) + SumAbs(idx \ {i})

RECURSIVE SumSqAbs(_)
SumSqAbs(idx) ==
  IF idx = {} THEN 0
  ELSE LET i == CHOOSE j \in idx : TRUE
       IN  Analysed[i].amount * Analysed[i].amount + SumSqAbs(idx \ {i})

\* n^2 times the population variance of the group: n * sum(a^2) - sum(a)^2
GroupSpread(i) ==
  Cardinality(GroupOf(i)) * SumSqAbs(GroupOf(i)) - SumAbs(GroupOf(i)) * SumAbs(GroupOf(i))

\* |amount| > mean + k * stdDev in the group of transaction i
Above(i, k) ==
  LET d == Cardinality(GroupOf(i)) * Abs(Analysed[i].amount) - SumAbs(GroupOf(i))
  IN  d > 0 /\ d * d > k * k * GroupSpread(i)

ShouldFlag(i) ==
  /\ Cardinality(GroupOf(i)) >= 3
  /\ GroupSpread(i) # 0
  /\ Above(i, 2)

FlagsOf(i) == {j \in DOMAIN anomalies : anomalies[j].transaction = Analysed[i]}

\* ten transactions of absolute amount 10 and one of 1000 in the category of i
TenAndOne(i) ==
  /\ Cardinality(GroupOf(i)) = 11
  /\ Cardinality({j \in GroupOf(i) : Abs(Analysed[j].amount) = 10}) = 10
  /\ Abs(Analysed[i].amount) = 1000

\* C10: a transaction is flagged exactly when its category has at least 3
\* transactions, a non-zero deviation and the transaction's absolute amount is
\* above mean + 2 stdDev; the severity is high exactly when it is above
\* mean + 3 stdDev; the 1000 among ten 10s is flagged high; no flagged
\* transaction has a zero standard deviation as divisor.
C10_AnomalyRule ==
  insightsRun =>
    /\ \A i \in DOMAIN Analysed :
         /\ Cardinality(FlagsOf(i)) = (IF ShouldFlag(i) THEN 1 ELSE 0)
         /\ \A j \in FlagsOf(i) :
              anomalies[j].severity = (IF Above(i, 3) THEN "high" ELSE "medium")
         /\ TenAndOne(i) =>
              \E j \in FlagsOf(i) : anomalies[j].severity = "high"
    /\ \A j \in DOMAIN anomalies :
         /\ anomalies[j].transaction \in Range(Analysed)
         /\ anomalies[j].deviationSq.den > 0

(***************************************************************************)
(* Properties of the forecaster                                            *)
(***************************************************************************)
\* the monthly totals of forecast i, chronological
TotalsOf(i) == [k \in DOMAIN forecasts[i].monthly |-> forecasts[i].monthly[k].totalSpent]

\* at least 3 totals, consecutive ones differing by the same positive step
IsProgression(totals) ==
  /\ Len(totals) >= 3
  /\ totals[2] - totals[1] > 0
  /\ \A k \in 1..(Len(totals) - 1) : totals[k + 1] - totals[k] = totals[2] - totals[1]

\* C11: for at least 3 chronological monthly totals in arithmetic progression
\* with a positive step, the forecast is one prediction, its amount the next
\* term of the progression and its confidence 1.
C11_ProgressionForecast ==
  insightsRun =>
    \A i \in DOMAIN forecasts :
      IsProgression(TotalsOf(i)) =>
        /\ Len(forecasts[i].forecast) = 1
        /\ forecasts[i].forecast[1].predictedAmount =
              RInt(TotalsOf(i)[Len(TotalsOf(i))] + (TotalsOf(i)[2] - TotalsOf(i)[1]))
        /\ forecasts[i].forecast[1].confidence = RInt(1)

C11_Witness ==
  /\ insightsRun
  /\ \E i \in DOMAIN forecasts :
       /\ TotalsOf(i) = <<100, 200, 300>>
       /\ forecasts[i].forecast[1].predictedAmount = RInt(400)
       /\ forecasts[i].forecast[1].confidence = RInt(1)

\* C12: the confidence of every forecast is a number between 0 and 1, and it
\* is 0 when all the monthly totals are equal; the quotient ssRes / ssTotal is
\* never taken with ssTotal = 0 (its result is then not a number).
C12_ConfidenceInUnitInterval ==
  insightsRun =>
    \A i \in DOMAIN forecasts :
      \A j \in DOMAIN forecasts[i].forecast :
        LET c == forecasts[i].forecast[j].confidence
        IN  /\ IsFinite(c)
            /\ ~RLess(c, RInt(0)) /\ ~RLess(RInt(1), c)
            /\ (\A k \in DOMAIN TotalsOf(i) : TotalsOf(i)[k] = TotalsOf(i)[1])
                  => c = RInt(0)

(***************************************************************************)
(* Properties of GET /analytics/insights                                   *)
(***************************************************************************)
Served == request.pc = "responded" /\ request.status = 200

\* the analyzers of generateEnhancedAIInsights were executed, to the end
GeneratorsRan == Served /\ request.fault = "none" /\ Len(request.categories) > 0

InsightsOf(category) ==
  {i \in DOMAIN request.insights : request.insights[i].category = category}

\* positions, in the list handed to the analyzers, of the transactions dated in
\* the month of the request's date
ThisMonthIdx == {i \in DOMAIN Analysed : MonthKey(Analysed[i].date) = MonthKey(request.today)}

CurrentIncome == SumAbs({i \in ThisMonthIdx : Analysed[i].amount > 0})

CurrentExpenses == SumAbs({i \in ThisMonthIdx : Analysed[i].amount < 0})

\* (I - E) / I * 100 < 20, the rate being 0 when I = 0
RateBelow20 ==
  CurrentIncome = 0 \/ (CurrentIncome - CurrentExpenses) * 100 < 20 * CurrentIncome

Trend500After400 ==
  /\ GeneratorsRan
  /\ Len(request.trends) >= 2
  /\ request.trends[1].expenses = 500
  /\ request.trends[2].expenses = 400

\* C14, as claimed: with monthly expenses of 500 for the latest month and 400
\* for the previous one a trend insight is emitted and its impact is high.
C14_Trend25IsHigh ==
  Trend500After400 =>
    /\ InsightsOf("Trend Analysis") # {}
    /\ \A i \in InsightsOf("Trend Analysis") : request.insights[i].impact = "high"

\* C14, amended: with monthly expenses of 500 for the latest month and 400 for
\* the previous one (a change of exactly 25%) one trend insight is emitted and
\* its impact is medium, high being kept for a change above 25%.
C14_Trend25IsMedium ==
  Trend500After400 =>
    /\ Cardinality(InsightsOf("Trend Analysis")) = 1
    /\ \A i \in InsightsOf("Trend Analysis") :
         request.insights[i].impact = "medium" /\ request.insights[i].actionable

C14_Witness ==
  /\ Trend500After400
  /\ \E i \in InsightsOf("Trend Analysis") : request.insights[i].impact = "medium"

\* C15: a request whose category query and trend query both return no row is
\* eventually answered, with the 'no data' placeholder as its insight list.
C15_NoDataAnswered ==
  \A k \in 1..MaxRequests :
    (request.n = k /\ request.pc = "nodata")
      ~> (/\ request.n = k
          /\ request.pc = "responded"
          /\ Len(request.insights) = 1
          /\ request.insights[1].category = "Data")

\* C16: when a generator throws while generateAIInsights runs, the request is
\* answered once, with a successful response and an empty insight list; no
\* request is answered twice.
C16_ThrowGivesEmptyList ==
  /\ request.sent <= 1
  /\ (request.pc = "responded" /\ request.fault = "throw") =>
       /\ request.status = 200
       /\ request.insights = <<>>
       /\ request.sent = 1

C16_Witness ==
  /\ request.pc = "responded" /\ request.fault = "throw"
  /\ request.timeView = "monthly"
  /\ Len(request.categories) > 0
  /\ request.status = 200 /\ request.insights = <<>> /\ request.sent = 1

\* what generateAIInsights gives for the request in a store that holds the
\* given transactions and subscriptions
InsightsIn(txs, subs) ==
  generateAIInsights(txs,
    [request EXCEPT !.categories = SpendingCategories(txs, request),
                    !.trends = MonthlyTrendRows(txs, request),
                    !.subscriptions = SubscriptionInsightRows(subs, request)],
    "none")

\* C17: the insight list of a request of user U is the one the same request
\* gets in the store that agrees on the records of U and holds no record of
\* any other user.
C17_OwnRecordsOnly ==
  (Served /\ request.fault = "none") =>
    request.insights =
      InsightsIn(SelectSeq(dbTransactions, LAMBDA t : t.user_id = request.userId),
                 SelectSeq(dbSubscriptions, LAMBDA r : r.user_id = request.userId))

(***************************************************************************)
(* Properties of the list the detector is given                            *)
(***************************************************************************)
\* the subscription view is mounted and loadAllData has completed
Loaded == activeTab = "subscriptions" /\ ~error

\* C19: after the client has loaded its data, every expense transaction stored
\* for the user is in the list passed to detectPotentialSubscriptions, however
\* many transactions are stored.
C19_CompleteHistory ==
  Loaded =>
    \A i \in DOMAIN dbTransactions :
      (dbTransactions[i].user_id = DEFAULT_USER_ID /\ dbTransactions[i].amount < 0)
        => \E j \in DOMAIN transactions : transactions[j].id = dbTransactions[i].id

\* the gaps between the consecutive distinct dates of a set of dates
GapsOf(ds) ==
  {d2 - d1 : <<d1, d2>> \in {p \in ds \X ds :
                               /\ p[1] < p[2]
                               /\ ~\E d \in ds : p[1] < d /\ d < p[2]}}

\* every gap is less than 7 days away from the average gap span / k
RegularDates(ds) ==
  LET k    == Cardinality(ds) - 1
      span == Max(ds) - Min(ds)
  IN  \A g \in GapsOf(ds) : Abs(g * k - span) < 7 * k

\* C20: every emitted candidate is (monthly, 0.9) when regular with
\* avgGap <= 35, else (monthly, 0.7) when regular with avgGap <= 45, else
\* (yearly, 0.8) when regular with avgGap <= 400, else (irregular, 0.5) and
\* then the vendor is not regular and has at least 3 transactions; no
\* candidate has cycle unknown or confidence <= 0.4.
C20_ClassificationTable ==
  \A i \in DOMAIN Candidates :
    LET c    == Candidates[i]
        ds   == ExpenseDates(c.vendor)
        k    == Cardinality(ds) - 1
        span == Max(ds) - Min(ds)
        reg  == RegularDates(ds)
    IN  /\ k >= 1
        /\ c.frequency # "unknown" /\ c.confidence > 40
        /\ IF reg /\ span <= 35 * k
             THEN c.frequency = "monthly" /\ c.confidence = 90
           ELSE IF reg /\ span <= 45 * k
             THEN c.frequency = "monthly" /\ c.confidence = 70
           ELSE IF reg /\ span <= 400 * k
             THEN c.frequency = "yearly" /\ c.confidence = 80
           ELSE /\ c.frequency = "irregular" /\ c.confidence = 50
                /\ ~reg
                /\ Cardinality(ExpenseIdx(c.vendor)) >= 3

(***************************************************************************)
(* Properties of the candidate list as a whole                             *)
(***************************************************************************)
\* C21: the candidate list is ordered by non-increasing confidence and holds
\* at most one candidate per vendor.
C21_SortedOnePerVendor ==
  /\ \A i, j \in DOMAIN Candidates :
       i < j => Candidates[i].confidence >= Candidates[j].confidence
  /\ \A i, j \in DOMAIN Candidates :
       Candidates[i].vendor = Candidates[j].vendor => i = j

\* two candidates of different confidence, the vendor met first in the
\* transaction list being the one of lower confidence
C21_Witness ==
  /\ Loaded
  /\ Len(Candidates) = 2
  /\ Candidates[1].confidence > Candidates[2].confidence
  /\ transactions[1].vendor = Candidates[2].vendor
  /\ Cardinality(ExpenseIdx(Candidates[1].vendor)) >= 2

(***************************************************************************)
(* Properties of the analyzers of generateEnhancedAIInsights               *)
(***************************************************************************)
AnalysedCategories == {Analysed[i].category : i \in DOMAIN Analysed}

CategoryIdx(c) == {i \in DOMAIN Analysed : Analysed[i].category = c}

\* the number of monthly totals of a category
MonthsOf(c) == Cardinality({MonthKey(Analysed[i].date) : i \in CategoryIdx(c)})

\* what the category spent in the month of the request's date
CurrentSpendOf(c) == SumAbs(CategoryIdx(c) \cap ThisMonthIdx)

\* the forecast of the category: the empty list, or one prediction
ForecastOf(c) ==
  forecastSpending(getMonthlyTrends(SelectSeq(Analysed, LAMBDA t : t.category = c)))

ForecastEmitted(c) ==
  \E i \in InsightsOf("Spending Forecast") : request.insights[i].id.key = c

ChangeAbove(k) ==
  100 * Abs(request.trends[1].expenses - request.trends[2].expenses)
    > k * request.trends[2].expenses

\* C23: with at least 2 monthly rows and previous-month expenses P > 0 a trend
\* insight is emitted if and only if |latest - P| / P * 100 > 15, with impact
\* high if that percentage is > 25 and medium otherwise; with fewer than 2
\* rows or P = 0 no trend insight is emitted.
C23_TrendInsightIff ==
  GeneratorsRan =>
    IF Len(request.trends) >= 2 /\ request.trends[2].expenses > 0
      THEN /\ InsightsOf("Trend Analysis") # {} <=> ChangeAbove(15)
           /\ Cardinality(InsightsOf("Trend Analysis")) <= 1
           /\ \A i \in InsightsOf("Trend Analysis") :
                /\ request.insights[i].impact \in {"high", "medium"}
                /\ request.insights[i].impact = "high" <=> ChangeAbove(25)
      ELSE InsightsOf("Trend Analysis") = {}

\* a change of 20% reported as medium
C23_Witness ==
  /\ GeneratorsRan
  /\ Len(request.trends) >= 2
  /\ request.trends[2].expenses = 400 /\ request.trends[1].expenses = 480
  /\ \E i \in InsightsOf("Trend Analysis") : request.insights[i].impact = "medium"

(***************************************************************************)
(* Properties of the detector on small groups                              *)
(***************************************************************************)
\* C30: no transaction of a category group of fewer than 6 transactions is
\* flagged, and no transaction of a group of fewer than 11 transactions gets
\* severity high.
C30_SmallGroupsUnflagged ==
  insightsRun =>
    \A i \in DOMAIN Analysed :
      \A j \in FlagsOf(i) :
        /\ Cardinality(GroupOf(i)) >= 6
        /\ anomalies[j].severity = "high" => Cardinality(GroupOf(i)) >= 11

(***************************************************************************)
(* Properties of the seasonal analyzer                                     *)
(***************************************************************************)
\* positions of the analysed transactions dated in calendar month m
MonthIdx(m) == {i \in DOMAIN Analysed : MonthKey(Analysed[i].date) % 12 = m}

\* the per-transaction average of calendar month m, 0 without transactions
MonthAverage(m) ==
  IF MonthIdx(m) = {} THEN RInt(0)
  ELSE Rat(SumAbs(MonthIdx(m)), Cardinality(MonthIdx(m)))

AverageSum == RSum([k \in 1..12 |-> MonthAverage(k - 1)])

\* average > 1.2 * (AverageSum / 12)
HighMonth(m) == RLess(AverageSum, RMul(RInt(10), MonthAverage(m)))

\* average < 0.8 * (AverageSum / 12)
LowMonth(m) == RLess(RMul(RInt(15), MonthAverage(m)), AverageSum)

CurrentMonth == MonthKey(request.today) % 12

\* C24: a calendar month is high when its per-transaction average is above
\* 1.2 times the mean of the twelve monthly averages, low when it is below 0.8
\* times that mean and normal otherwise; there is one seasonal insight when
\* the current month is high and none otherwise; without transactions every
\* month is normal with seasonality 1.
C24_SeasonalityRule ==
  GeneratorsRan =>
    LET patterns == detectSeasonalPatterns(Analysed)
    IN  /\ \A m \in 0..11 :
             patterns[m].pattern = (IF HighMonth(m) THEN "high"
                                    ELSE IF LowMonth(m) THEN "low" ELSE "normal")
        /\ Cardinality(InsightsOf("Seasonal Patterns"))
             = (IF HighMonth(CurrentMonth) THEN 1 ELSE 0)
        /\ Analysed = <<>> =>
             \A m \in 0..11 : /\ patterns[m].pattern = "normal"
                              /\ patterns[m].seasonality = RInt(1)

(***************************************************************************)
(* Properties of the behavioral analyzer                                   *)
(***************************************************************************)
\* the number of transactions to vendor v among txs, and their total
VisitCount(txs, v) == Cardinality({i \in DOMAIN txs : txs[i].vendor = v})

VisitTotal(txs, v) ==
  LET visits == SelectSeq(txs, LAMBDA t : t.vendor = v)
  IN  SumSeq([i \in DOMAIN visits |-> Abs(visits[i].amount)])

\* fewer than 3 vendors have more transactions than v
AmongTopThree(txs, v) ==
  LET count == VisitCount(txs, v)
  IN  Cardinality({w \in {txs[i].vendor : i \in DOMAIN txs} :
                     VisitCount(txs, w) > count}) < 3

\* C25: a behavioral insight is about a vendor among the 3 with the most
\* transactions that has more than 8 transactions (id behavior_<index> is
\* about position index of the sorted vendor list); there are at most 3
\* behavioral insights; the impact is high exactly when the vendor's total
\* spent is above 200 and medium otherwise.
C25_BehavioralInsights ==
  GeneratorsRan =>
    LET txs    == Analysed
        ranked == analyzeVendorPatterns(txs)
    IN  /\ Cardinality(InsightsOf("Behavioral Patterns")) <= 3
        /\ \A i \in InsightsOf("Behavioral Patterns") :
             LET vendor == ranked[request.insights[i].id.index + 1].name
             IN  /\ VisitCount(txs, vendor) > 8
                 /\ AmongTopThree(txs, vendor)
                 /\ request.insights[i].impact
                      = (IF VisitTotal(txs, vendor) > 200 THEN "high" ELSE "medium")

\* four vendors have more than 8 transactions, three insights are emitted, one
\* of them for a vendor with a total of exactly 200
C25_Witness ==
  /\ GeneratorsRan
  /\ LET txs    == Analysed
         ranked == analyzeVendorPatterns(txs)
     IN  /\ Len(ranked) = 4
         /\ \A k \in DOMAIN ranked : ranked[k].frequency > 8
         /\ Cardinality(InsightsOf("Behavioral Patterns")) = 3
         /\ \E i \in InsightsOf("Behavioral Patterns") :
              /\ VisitTotal(txs, ranked[request.insights[i].id.index + 1].name) = 200
              /\ request.insights[i].impact = "medium"
         /\ \E i \in InsightsOf("Behavioral Patterns") :
              request.insights[i].impact = "high"

(***************************************************************************)
(* Properties of the subscription commentary                               *)
(***************************************************************************)
\* the stored subscriptions of the user of the request
OwnSubscriptions ==
  {i \in DOMAIN dbSubscriptions : dbSubscriptions[i].user_id = request.userId}

ActiveSubscriptions == {i \in OwnSubscriptions : dbSubscriptions[i].status = "active"}

RECURSIVE MonthlyCostOf(_)
MonthlyCostOf(S) ==
  IF S = {} THEN RInt(0)
  ELSE LET i == CHOOSE j \in S : TRUE
           sub == dbSubscriptions[i]
       IN RAdd(IF sub.frequency = "monthly" THEN sub.amount
               ELSE JsDiv(sub.amount, RInt(12)),
               MonthlyCostOf(S \ {i}))

\* C26: a user without a subscription of status active gets a positive
\* 'Subscription Management' insight; any other user gets a medium-impact one
\* exactly when the monthly cost of the subscriptions together exceeds 100.
C26_SubscriptionCommentary ==
  GeneratorsRan =>
    IF ActiveSubscriptions = {}
    THEN \E i \in InsightsOf("Subscription Management") :
           request.insights[i].impact = "positive"
    ELSE (\E i \in InsightsOf("Subscription Management") :
            request.insights[i].impact = "medium")
         <=> RLess(RInt(100), MonthlyCostOf(OwnSubscriptions))

(***************************************************************************)
(* Properties of POST /subscriptions/mark-not-subscription                 *)
(***************************************************************************)
\* C27: a call of mark-not-subscription leaves the stored transactions,
\* subscriptions and budgets and the client's loaded lists and exclusion sets
\* as they were, and with them the list of candidates.
C27_MarkChangesNothing ==
  /\ [][lastOp'.op = "mark" =>
          /\ dbTransactions' = dbTransactions
          /\ dbSubscriptions' = dbSubscriptions
          /\ dbBudgets' = dbBudgets
          /\ transactions' = transactions
          /\ subscriptions' = subscriptions
          /\ rejectedVendors' = rejectedVendors
          /\ permanentlyRemovedVendors' = permanentlyRemovedVendors]_vars
  /\ [](lastOp.op = "mark" => Candidates = lastOp.listed)

\* a listed vendor was marked, successfully, and budgets were stored
C27_Witness ==
  /\ lastOp.op = "mark"
  /\ lastOp.ok
  /\ Len(Candidates) > 0
  /\ lastOp.vendor \in CandidateVendors
  /\ dbBudgets # <<>>

(***************************************************************************)
(* Properties of the budgets under requests on transactions                *)
(***************************************************************************)
\* positions of the stored expenses linked to a budget
LinkedExpenses(budgetId) ==
  {i \in DOMAIN dbTransactions :
     dbTransactions[i].type = "expense" /\ dbTransactions[i].budget_id = budgetId}

RECURSIVE SumAbsAmounts(_)
SumAbsAmounts(S) ==
  IF S = {} THEN 0
  ELSE LET i == CHOOSE j \in S : TRUE
       IN  Abs(dbTransactions[i].amount) + SumAbsAmounts(S \ {i})

\* C28: while every create, update and delete succeeds, the spent of each
\* budget is its initial spent plus the absolute amounts of the stored expenses
\* linked to it.
C28_SpentMatchesExpenses ==
  \A b \in DOMAIN dbBudgets :
    dbBudgets[b].spent =
      StoredBudgets[b].spent + SumAbsAmounts(LinkedExpenses(dbBudgets[b].id))

\* C29: a DELETE that is answered with an error and leaves the transaction
\* stored leaves the spent of every budget as it was.
C29_FailedDeleteKeepsSpent ==
  [][(/\ lastOp'.op = "delete"
      /\ lastOp'.status = 500
      /\ dbTransactions' = dbTransactions) => dbBudgets' = dbBudgets]_vars

====
